---- MODULE Spec2Model ----
(***************************************************************************)
(* Meta insights sync of PaidSocialNav: date chunking, the per-chunk       *)
(* fetch-and-load retry loop and level orchestration of                    *)
(* paid_social_nav/core/sync.py, and the staging/merge loader of           *)
(* paid_social_nav/storage/bq.py.                                          *)
(*                                                                         *)
(* Calendar dates are day ordinals (integers); timedelta(days=n) is n.     *)
(* A SQL NULL / Python None id is the value Null, distinct from "".        *)
(***************************************************************************)
EXTENDS Integers, Sequences, FiniteSets, Bags, TLC

VARIABLES
    \* ---- _chunks generator (sync.py:89-99) --------------------------------
    dr,             \* the DateRange handed to _chunks, or NoRange
    chunk_days,     \* chunk_days argument
    gen,            \* position of the _chunks generator: [pc, cursor]
    yielded,        \* the chunks the generator has yielded so far (SpecChunks)
    \* ---- load_json_rows (bq.py:256-315) -----------------------------------
    lpc,            \* position inside load_json_rows
    batch,          \* its rows argument
    stg_table,      \* the staging table name chosen by this call, or NoName
    lfail,          \* step at which this call's exception was raised, or "none"
    dfail,          \* delete_table of this call's finally block raised
    tables,         \* the staging tables that exist: name -> bag of rows
    dest,           \* the destination table: bag of rows
    uuid_next,      \* the next value uuid4 returns
    dest0,          \* history: dest when the current call started
    stg_prev,       \* history: staging name chosen by the previous call
    merged,         \* history: the MERGE statement of this call ran to completion
    reload,         \* history: this call repeats the batch of the call just returned
    nloads,         \* history: number of load_json_rows calls started
    nrows,          \* history: number of rows handed to the load_json_rows calls started
    steps,          \* history: the warehouse steps this call has attempted, in order
    \* ---- sync_meta_insights (sync.py:102-264) -----------------------------
    spc,            \* position inside sync_meta_insights
    level,          \* level argument
    levels,         \* levels argument: << >> is None, <<list>> is a list
    fallback_levels,\* fallback_levels argument
    retries,        \* retries argument
    retry_backoff,  \* retry_backoff argument, in clock ticks
    min_interval,   \* _fetch_and_load: min_interval (1 / rate_limit_rps, 0 when off), in ticks
    date_preset,    \* date_preset argument, or Null
    since,          \* since argument: a string, or Null
    until,          \* until argument: a string, or Null
    today,          \* datetime.now(UTC).date() of this run
    api_bad,        \* the account's insights hold a row whose spend is not a number
    api_pages,      \* the most pages the account's insights take for one request
    wh_drop_fails,  \* the warehouse's delete_table may raise
    current_level,  \* current_level of the fallback loop
    tried_levels,   \* tried_levels of the fallback loop
    li,             \* index of the for loop over levels (1-based)
    total,          \* total
    result,         \* the returned dict's "rows", or NoResult
    run_level,      \* _fetch_and_load: run_level
    rows,           \* _fetch_and_load: rows
    loaded_count,   \* _fetch_and_load: loaded_count
    chunk,          \* _fetch_and_load: chunk of the for loop
    attempt,        \* _fetch_and_load: attempt
    page,           \* fetch_insights: number of page requests answered so far
    dp,             \* _fetch_and_load: dp
    now,            \* the clock (time.time()), in ticks
    last_time,      \* _fetch_and_load: last_time of _maybe_sleep, or NoTime
    prev_req,       \* history: when the previous outbound request of this sync started
    req_gap,        \* history: the smallest distance between two consecutive requests
    fetch_call,     \* history: date_range and date_preset of the last fetch_insights call
    resp_log,       \* history: the responses the current fetch_insights call received
    fetched,        \* history: the records the current fetch_insights call yielded
    expect,         \* history: records yielded by the fetches whose chunk was completed
    slept,          \* history: the backoff sleeps taken for the current chunk
    resolved,       \* sync_meta_insights: resolved (_ResolvedDates), or NoResolved
    ops,            \* history: adapter construction and ensure_* calls made so far
    \* ---- sync-insights command (cli/main.py:157-230) ------------------------
    cpc,            \* position inside the command; "none" when sync is called directly
    opt_date_preset,\* the --date-preset option as given
    opt_levels,     \* the --levels option as given: a string, or Null
    exit_code,      \* exit code of the command, or NoResult
    cli_out,        \* messages the command has written
    \* ---- fetch_insights over one page of upstream rows (adapter.py:127-161) --
    up_rows,        \* data of the response: the upstream rows
    ppos,           \* index of the row the loop is at (1-based)
    precs,          \* the InsightRecords yielded so far
    perr,           \* the exception the loop raised, or "none"
    \* ---- a load_json_rows call of another sync invocation (bq.py:256-315) ---
    peer_lpc,       \* its position inside load_json_rows
    peer_batch,     \* its rows argument
    peer_stg,       \* the staging table name it chose, or NoName
    peer_lfail,     \* step at which its exception was raised, or "none"
    peer_dfail,     \* its delete_table raised
    peer_merged,    \* history: its MERGE statement ran to completion
    \* ---- meta_sync_insights_tool (mcp_server/tools.py:24-128) ----------------
    tpc,            \* position inside the tool; "none" when the tool is not the entry
    tool_preset,    \* its date_preset argument as given: a string, or Null
    preset_enum,    \* its local preset_enum: the converted preset, or Null
    tool_rows,      \* its local rows, or NoResult
    tool_out,       \* the dict it returned, or NoOut
    \* ---- RateLimiter (mcp_server/rate_limiting.py:14-46) --------------------
    requests_per_minute, \* self.requests_per_minute
    buckets,        \* self.buckets: tenant -> [tokens, last_update]; tokens in 60ths
    clock,          \* datetime.now(), in seconds
    lim_log,        \* history: every check_limit call, with buckets before and after
    calls,          \* history: invocations of the unit for the current chunk
    fails,          \* history: failed invocations of the unit for the current chunk
    err,            \* history: the exception last raised inside the unit
    raised,         \* history: the exception sync_meta_insights raised
    ran,            \* history: [level, rows] of every _fetch_and_load that returned
    pages,          \* history: page indices requested in the current attempt
    after_merge_fail \* history: the previous attempt of this chunk failed in MERGE

chunkVars == <<dr, chunk_days, gen, yielded>>
loadVars == <<lpc, batch, stg_table, lfail, dfail, tables, dest, uuid_next, dest0, stg_prev,
              merged, reload, nloads, nrows, steps>>
entryVars == <<resolved, ops, cpc, opt_date_preset, opt_levels, exit_code, cli_out>>
histVars == <<resp_log, fetched, expect, slept>>
timeVars == <<now, last_time, prev_req, req_gap>>
syncArgs == <<level, levels, fallback_levels, retries, retry_backoff, min_interval,
              date_preset, since, until, today, api_bad, api_pages,
              wh_drop_fails>>
syncVars == <<spc, syncArgs, current_level, tried_levels, li, total, result, run_level,
              rows, loaded_count, chunk, attempt, page, calls, fails, err, raised, ran,
              pages, after_merge_fail, dp, fetch_call, timeVars, histVars, entryVars>>
parseVars == <<up_rows, ppos, precs, perr>>
peerVars == <<peer_lpc, peer_batch, peer_stg, peer_lfail, peer_dfail, peer_merged>>
toolVars == <<tpc, tool_preset, preset_enum, tool_rows, tool_out>>
limVars == <<requests_per_minute, buckets, clock, lim_log>>
auxVars == <<parseVars, peerVars, toolVars, limVars>>
vars == <<chunkVars, loadVars, syncVars, auxVars>>

\* ---------------------------------------------------------------- bounds
MaxSpan == 64
MaxChunkDays == 66
MaxBatch == 2
MaxLoads == 2
MaxRows == 4
MaxRetries == 2
MaxPages == 2
MaxPageRows == 2
MaxRpm == 2
MaxCalls == 4
MaxTicks == 2
TickSeconds == 30
MinInterval == 2
MaxLatency == 1

\* ------------------------------------------------------------- constants
SingleChunkDays == 60
Day0 == 10

Null == "<null>"
NoName == "<none>"
NoRange == [kind |-> "none"]
DateRange(s, u) == [kind |-> "range", since |-> s, until |-> u]

Min(a, b) == IF a <= b THEN a ELSE b

\* ===========================================================================
\* _chunks
\* ===========================================================================
GenStart == [pc |-> "start", cursor |-> 0]

\* total_days = (dr.until - dr.since).days + 1
TotalDaysPlusTwo(r) == (r.until - r.since) + 2
TotalDays(r) == (r.until - r.since) + 1

\* end = min(cursor + step - timedelta(days=1), dr.until)
ChunkEndShort(cursor, days, stop) == Min(cursor + days, stop)
ChunkEnd(cursor, days, stop) == Min(cursor + days - 1, stop)

\* date.min as a day ordinal: date arithmetic below it raises OverflowError.
DateMin == 1

\* One resumption of the generator: what next() on it produces.
\* out is <<chunk>> for a yield and << >> for StopIteration or an exception
\* (pc "raised": cursor + step - timedelta(days=1) fell below date.min).
GenStep(r, days, g) ==
    IF g.pc = "start" /\ TotalDays(r) <= SingleChunkDays
    THEN [out |-> <<r>>, gen |-> [pc |-> "done", cursor |-> 0]]
    ELSE IF g.pc \in {"done", "raised"}
    THEN [out |-> << >>, gen |-> g]
    ELSE LET cursor == IF g.pc = "start" THEN r.since ELSE g.cursor
         IN IF cursor <= r.until
            THEN IF cursor + days - 1 < DateMin
                 THEN [out |-> << >>, gen |-> [pc |-> "raised", cursor |-> 0]]
                 ELSE LET end == ChunkEnd(cursor, days, r.until)
                      IN [out |-> <<DateRange(cursor, end)>>,
                          gen |-> [pc |-> "loop", cursor |-> end + 1]]
            ELSE [out |-> << >>, gen |-> [pc |-> "done", cursor |-> 0]]

\* total_days of a resolved date_range; no range is a single logical chunk
TotalDaysOf(r) == IF r = NoRange THEN 0 ELSE TotalDays(r)

\* Inputs of the chunker model.
Spans == {0, 1, 2} \cup ((SingleChunkDays - 1)..MaxSpan)
ChunkRanges == {DateRange(Day0, Day0 + n - 1) : n \in Spans}
ChunkDaysSet == (-1)..MaxChunkDays
\* The history of yielded chunks is kept this long; a generator that goes on
\* yielding (chunk_days = 0) keeps running with the history no longer growing.
YieldCap == MaxSpan + 3

ChunksNext ==
    /\ LET s == GenStep(dr, chunk_days, gen)
       IN /\ gen.pc \notin {"done", "raised"}
          /\ gen' = s.gen
          /\ yielded' = IF Len(yielded) < YieldCap THEN yielded \o s.out ELSE yielded
    /\ UNCHANGED <<dr, chunk_days, loadVars, syncVars, auxVars>>

\* ===========================================================================
\* load_json_rows
\* ===========================================================================
IfNull(x) == IF x = Null THEN "" ELSE x

Row(d, lv, camp, adset, ad, m) ==
    [date |-> d, level |-> lv, account_global_id |-> "meta:account:act_1",
     campaign_global_id |-> camp, adset_global_id |-> adset, ad_global_id |-> ad,
     impressions |-> m, clicks |-> m, spend |-> m, conversions |-> m, ctr |-> m,
     frequency |-> m, raw_metrics |-> m]

\* The ON condition of the MERGE statement.
MergeOnNoIfNull(t, s) ==
    /\ t.date = s.date
    /\ t.level = s.level
    /\ t.account_global_id = s.account_global_id /\ t.account_global_id # Null
    /\ t.campaign_global_id = s.campaign_global_id /\ t.campaign_global_id # Null
    /\ t.adset_global_id = s.adset_global_id /\ t.adset_global_id # Null
    /\ t.ad_global_id = s.ad_global_id /\ t.ad_global_id # Null
MergeOn(t, s) ==
    /\ t.date = s.date
    /\ t.level = s.level
    /\ IfNull(t.account_global_id) = IfNull(s.account_global_id)
    /\ IfNull(t.campaign_global_id) = IfNull(s.campaign_global_id)
    /\ IfNull(t.adset_global_id) = IfNull(s.adset_global_id)
    /\ IfNull(t.ad_global_id) = IfNull(s.ad_global_id)

\* WHEN MATCHED THEN UPDATE SET ...
MergeUpdateWholeRow(t, s) == s
MergeUpdate(t, s) ==
    [t EXCEPT !.impressions = s.impressions, !.clicks = s.clicks, !.spend = s.spend,
              !.conversions = s.conversions, !.ctr = s.ctr,
              !.frequency = s.frequency, !.raw_metrics = s.raw_metrics]

RECURSIVE SumOver(_, _)
SumOver(S, B) ==
    IF S = {} THEN 0
    ELSE LET x == CHOOSE y \in S : TRUE IN B[x] + SumOver(S \ {x}, B)

\* The rows of a list as a table (a bag): the load job appends every line.
RECURSIVE SeqToBag(_)
SeqToBag(s) ==
    IF s = << >> THEN EmptyBag ELSE SetToBag({Head(s)}) (+) SeqToBag(Tail(s))

\* Source rows (with multiplicity) that the ON condition joins to target row t.
Matches(t, S) == {s \in BagToSet(S) : MergeOn(t, s)}
MatchCount(t, S) == SumOver(Matches(t, S), S)

\* MERGE fails when a target row joins more than one source row.
MergeAmbiguous(T, S) == \E t \in BagToSet(T) : MatchCount(t, S) > 1

\* The image of target row t: updated from its one matching source row, or kept.
MergeImage(t, S) ==
    IF Matches(t, S) = {} THEN t
    ELSE MergeUpdate(t, CHOOSE s \in Matches(t, S) : TRUE)

\* The table after the MERGE: every target row updated or kept, and every source
\* row that joins no target row inserted (WHEN NOT MATCHED THEN INSERT ROW).
MergeResult(T, S) ==
    LET imgs == {MergeImage(t, S) : t \in BagToSet(T)}
        updated == [r \in imgs |->
                      SumOver({t \in BagToSet(T) : MergeImage(t, S) = r}, T)]
        newRows == {s \in BagToSet(S) : \A t \in BagToSet(T) : ~MergeOn(t, s)}
        inserted == [s \in newRows |-> S[s]]
    IN updated (+) inserted

\* (the name without the unique id, as when unique_id is not given)
_staging_tableNoId(unique_id) == <<"__stg_fct_ad_insights_daily">>
_staging_table(unique_id) == <<"__stg_fct_ad_insights_daily", unique_id>>

notLoad == <<chunkVars, syncVars, auxVars>>

\* if not rows: return
LoadEmpty ==
    /\ lpc = "called" /\ batch = << >>
    /\ lpc' = "returned"
    /\ UNCHANGED <<batch, stg_table, lfail, tables, dest, uuid_next, dest0, stg_prev,
                   merged, reload, nloads, nrows, steps, dfail, notLoad>>

\* client construction and ensure_insights_table, then the staging name.
LoadEnsure ==
    /\ lpc = "called" /\ batch # << >>
    /\ \/ /\ lpc' = "create"
          /\ stg_table' = _staging_table(uuid_next)
          /\ uuid_next' = uuid_next + 1
          /\ lfail' = lfail
       \/ /\ lpc' = "raised"
          /\ lfail' = "ensure"
          /\ UNCHANGED <<stg_table, uuid_next>>
    /\ UNCHANGED <<batch, tables, dest, dest0, stg_prev, merged, reload, nloads, nrows, steps,
                   dfail, notLoad>>

\* _create_staging_table(project_id, dataset, stg_table)
LoadCreate ==
    /\ lpc = "create"
    /\ steps' = Append(steps, "create")
    /\ \/ /\ tables' = IF stg_table \in DOMAIN tables THEN tables
                       ELSE (stg_table :> EmptyBag) @@ tables
          /\ lpc' = "load"
          /\ lfail' = lfail
       \/ /\ lpc' = "finally"
          /\ lfail' = "create"
          /\ tables' = tables
    /\ UNCHANGED <<batch, stg_table, dest, uuid_next, dest0, stg_prev, merged, reload,
                   nloads, nrows, dfail, notLoad>>

\* client.load_table_from_file(buf, stg_table, ...); load_job.result()
LoadStageSwallow ==
    /\ lpc = "load"
    /\ steps' = Append(steps, "load")
    /\ \/ /\ tables' = [tables EXCEPT ![stg_table] = @ (+) SeqToBag(batch)]
          /\ lfail' = lfail
       \/ /\ lfail' = "load"
          /\ tables' = [tables EXCEPT ![stg_table] = @ (+) SeqToBag(<<Head(batch)>>)]
    /\ lpc' = "merge"
    /\ UNCHANGED <<batch, stg_table, dest, uuid_next, dest0, stg_prev, merged, reload,
                   nloads, nrows, dfail, notLoad>>
LoadStage ==
    /\ lpc = "load"
    /\ steps' = Append(steps, "load")
    /\ \/ /\ stg_table \in DOMAIN tables
          /\ tables' = [tables EXCEPT ![stg_table] = @ (+) SeqToBag(batch)]
          /\ lpc' = "merge"
          /\ lfail' = lfail
       \/ /\ lpc' = "finally"
          /\ lfail' = "load"
          /\ tables' = tables
    /\ UNCHANGED <<batch, stg_table, dest, uuid_next, dest0, stg_prev, merged, reload,
                   nloads, nrows, dfail, notLoad>>

\* client.query(merge_sql).result(): one atomic statement
LoadMerge ==
    /\ lpc = "merge"
    /\ steps' = Append(steps, "merge")
    /\ \/ /\ stg_table \in DOMAIN tables
          /\ ~MergeAmbiguous(dest, tables[stg_table])
          /\ dest' = MergeResult(dest, tables[stg_table])
          /\ merged' = TRUE
          /\ lfail' = lfail
       \/ /\ lfail' = "merge"
          /\ UNCHANGED <<dest, merged>>
    /\ lpc' = "finally"
    /\ UNCHANGED <<batch, stg_table, tables, uuid_next, dest0, stg_prev, reload, nloads, nrows,
                   dfail, notLoad>>

\* finally: client.delete_table(stg_table, not_found_ok=True)
DropTable(name) == [n \in DOMAIN tables \ {name} |-> tables[n]]

\* The delete is a warehouse call like the others: when it raises, the call
\* raises that error (whatever went before) and the staging table stays.
LoadFinally ==
    /\ lpc = "finally"
    /\ steps' = Append(steps, "drop")
    /\ \/ /\ tables' = DropTable(stg_table)
          /\ lpc' = IF lfail = "none" THEN "returned" ELSE "raised"
          /\ dfail' = dfail
       \/ /\ wh_drop_fails
          /\ tables' = tables
          /\ lpc' = "raised"
          /\ dfail' = TRUE
    /\ UNCHANGED <<batch, stg_table, lfail, dest, uuid_next, dest0, stg_prev, merged,
                   reload, nloads, nrows, notLoad>>

\* ---- the same steps, taken by the load_json_rows call of another sync
\* invocation running at the same time against the same dataset.
ownLoad == <<lpc, batch, stg_table, lfail, dfail, dest0, stg_prev, merged, reload, nloads, nrows, steps>>
notPeer == <<chunkVars, syncVars, parseVars, toolVars, limVars, ownLoad>>

PeerEnsure ==
    /\ peer_lpc = "called" /\ peer_batch # << >>
    /\ \/ /\ peer_lpc' = "create"
          /\ peer_stg' = _staging_table(uuid_next)
          /\ uuid_next' = uuid_next + 1
          /\ peer_lfail' = peer_lfail
       \/ /\ peer_lpc' = "raised"
          /\ peer_lfail' = "ensure"
          /\ UNCHANGED <<peer_stg, uuid_next>>
    /\ UNCHANGED <<peer_batch, peer_dfail, peer_merged, tables, dest, notPeer>>

PeerCreate ==
    /\ peer_lpc = "create"
    /\ \/ /\ tables' = IF peer_stg \in DOMAIN tables THEN tables
                       ELSE (peer_stg :> EmptyBag) @@ tables
          /\ peer_lpc' = "load"
          /\ peer_lfail' = peer_lfail
       \/ /\ peer_lpc' = "finally"
          /\ peer_lfail' = "create"
          /\ tables' = tables
    /\ UNCHANGED <<peer_batch, peer_stg, peer_dfail, peer_merged, dest, uuid_next, notPeer>>

PeerStage ==
    /\ peer_lpc = "load"
    /\ \/ /\ peer_stg \in DOMAIN tables
          /\ tables' = [tables EXCEPT ![peer_stg] = @ (+) SeqToBag(peer_batch)]
          /\ peer_lpc' = "merge"
          /\ peer_lfail' = peer_lfail
       \/ /\ peer_lpc' = "finally"
          /\ peer_lfail' = "load"
          /\ tables' = tables
    /\ UNCHANGED <<peer_batch, peer_stg, peer_dfail, peer_merged, dest, uuid_next, notPeer>>

PeerMerge ==
    /\ peer_lpc = "merge"
    /\ \/ /\ peer_stg \in DOMAIN tables
          /\ ~MergeAmbiguous(dest, tables[peer_stg])
          /\ dest' = MergeResult(dest, tables[peer_stg])
          /\ peer_merged' = TRUE
          /\ peer_lfail' = peer_lfail
       \/ /\ peer_lfail' = "merge"
          /\ UNCHANGED <<dest, peer_merged>>
    /\ peer_lpc' = "finally"
    /\ UNCHANGED <<peer_batch, peer_stg, peer_dfail, tables, uuid_next, notPeer>>

PeerFinally ==
    /\ peer_lpc = "finally"
    /\ \/ /\ tables' = DropTable(peer_stg)
          /\ peer_lpc' = IF peer_lfail = "none" THEN "returned" ELSE "raised"
          /\ peer_dfail' = peer_dfail
       \/ /\ wh_drop_fails
          /\ tables' = tables
          /\ peer_lpc' = "raised"
          /\ peer_dfail' = TRUE
    /\ UNCHANGED <<peer_batch, peer_stg, peer_lfail, peer_merged, dest, uuid_next, notPeer>>

\* Entry of load_json_rows with the rows b.
LoadEnter(b, again) ==
    /\ lpc' = "called"
    /\ batch' = b
    /\ stg_prev' = stg_table
    /\ stg_table' = NoName
    /\ lfail' = "none"
    /\ dfail' = FALSE
    /\ dest0' = dest
    /\ merged' = FALSE
    /\ reload' = again
    /\ steps' = << >>
    /\ UNCHANGED <<tables, dest, uuid_next>>

\* Inputs of the loader model: rows as the sync builds them (date and level set,
\* ids possibly null), and an id given as the empty string.
LoadRows ==
    { Row(Day0, "ad", Null, Null, Null, 1),
      Row(Day0, "ad", Null, Null, Null, 2),
      Row(Day0, "ad", "", Null, Null, 1),
      Row(Day0, "ad", "meta:campaign:1", Null, Null, 1) }

RECURSIVE SeqsUpTo(_, _)
SeqsUpTo(S, n) ==
    IF n = 0 THEN {<< >>}
    ELSE LET shorter == SeqsUpTo(S, n - 1)
         IN shorter \cup {Append(q, x) : q \in {p \in shorter : Len(p) = n - 1}, x \in S}

Batches == SeqsUpTo(LoadRows, MaxBatch)

\* A caller hands a batch to load_json_rows; the callers explored make at most
\* MaxLoads calls and hand over at most MaxRows rows in all.
LoadCall ==
    /\ lpc \in {"idle", "returned", "raised"}
    /\ nloads < MaxLoads
    /\ \E b \in Batches :
          /\ nrows + Len(b) <= MaxRows
          /\ LoadEnter(b, FALSE)
          /\ nrows' = nrows + Len(b)
    /\ nloads' = nloads + 1
    /\ UNCHANGED notLoad

\* The caller hands over the batch of the call that just returned once more.
LoadAgain ==
    /\ lpc = "returned" /\ batch # << >>
    /\ nloads < MaxLoads /\ nrows + Len(batch) <= MaxRows
    /\ LoadEnter(batch, TRUE)
    /\ nloads' = nloads + 1
    /\ nrows' = nrows + Len(batch)
    /\ UNCHANGED notLoad

\* ===========================================================================
\* sync_meta_insights
\* ===========================================================================
FALLBACK_ORDER_Reversed == <<"campaign", "adset", "ad">>
FALLBACK_ORDER == <<"ad", "adset", "campaign">>
NoResult == -1
NoTime == -1

\* FALLBACK_ORDER.index(current_level); defined when current_level is in the list
IndexOf(q, x) == CHOOSE i \in 1..Len(q) : q[i] = x /\ \A j \in 1..(i - 1) : q[j] # x
InSeq(q, x) == \E i \in 1..Len(q) : q[i] = x

\* next_index of the fallback loop, as a 1-based position in FALLBACK_ORDER
NextIndex(lv) ==
    IF InSeq(FALLBACK_ORDER, lv) THEN IndexOf(FALLBACK_ORDER, lv) + 1
    ELSE Len(FALLBACK_ORDER) + 1

\* `if levels:` -- neither None nor an empty list
LevelsGiven == levels # << >> /\ levels[1] # << >>

\* f"meta:{kind}:{id}" if id else None
GlobalId(kind, id) ==
    IF id = Null \/ id = "" THEN Null
    ELSE CASE kind = "campaign" /\ id = "1" -> "meta:campaign:1"
           [] kind = "adset" /\ id = "1" -> "meta:adset:1"
           [] kind = "ad" /\ id = "1" -> "meta:ad:1"
           [] kind = "ad" /\ id = "2" -> "meta:ad:2"
           [] kind = "ad" /\ id = "3" -> "meta:ad:3"
           [] kind = "ad" /\ id = "4" -> "meta:ad:4"

\* An InsightRecord of the adapter: date, level and metrics with its raw row.
ApiRow(d, camp, adset, ad, m) ==
    [date |-> d, campaign_id |-> camp, adset_id |-> adset, ad_id |-> ad, m |-> m]

\* The dict appended to rows for the InsightRecord ir fetched at level lv.
ToRow(ir, lv) ==
    Row(ir.date, lv, GlobalId("campaign", ir.campaign_id), GlobalId("adset", ir.adset_id),
        GlobalId("ad", ir.ad_id), ir.m)

RECURSIVE ToRows(_, _)
ToRows(irs, lv) ==
    IF irs = << >> THEN << >> ELSE <<ToRow(Head(irs), lv)>> \o ToRows(Tail(irs), lv)

\* Inputs of the sync model: what the Graph API may answer with. The result set is
\* paged; page p (0-based) holds its own record or nothing ...
PageAdId == <<"1", "2", "3", "4">>
PageRecord(p) == ApiRow(Day0, "1", "", PageAdId[p + 1], 1)
PageContents(p) == {<< >>, <<PageRecord(p)>>}

\* ... the level arguments (level and fallback_levels are not read when a
\* non-empty list is given) ...
SyncLevelArgs ==
    {[level |-> lv, levels |-> << >>, fallback_levels |-> fb] :
        lv \in {"ad", "adset", "campaign", "account"}, fb \in BOOLEAN}
    \cup {[level |-> "adset", levels |-> << << >> >>, fallback_levels |-> TRUE]}
    \cup {[level |-> "ad", levels |-> <<ls>>, fallback_levels |-> TRUE] :
        ls \in {<<"ad">>, <<"campaign", "ad">>, <<"adset", "adset">>}}

\* ... and the resolved dates: one day, 61 days in chunks of 31, or no range (lifetime).
OneDay == [dr |-> DateRange(Day0, Day0), chunk_days |-> 30]
SyncDateArgs ==
    { OneDay,
      [dr |-> DateRange(Day0, Day0 + SingleChunkDays), chunk_days |-> 31],
      [dr |-> NoRange, chunk_days |-> 30] }

\* The calls explored: every level argument on a one-day range of a single
\* page with at most one retry, one level on every range with every number of
\* pages and no retry, or on a one-day range with at most one, one level on
\* every range of a single page with at most one retry, and one level with
\* every retry budget on the single-page ranges that make a single chunk,
\* all on a warehouse whose delete_table does not fail; and one level on a
\* one-day range where it may.
Campaign == [level |-> "campaign", levels |-> << >>, fallback_levels |-> TRUE]
SyncArgs ==
    {[lv |-> a, retries |-> r, dates |-> OneDay, pages |-> 1, drops |-> FALSE] :
        a \in SyncLevelArgs, r \in 0..Min(1, MaxRetries)}
    \cup {[lv |-> Campaign, retries |-> 0, dates |-> d, pages |-> MaxPages, drops |-> FALSE] :
        d \in SyncDateArgs}
    \cup {[lv |-> Campaign, retries |-> r, dates |-> OneDay, pages |-> MaxPages, drops |-> FALSE] :
        r \in 0..Min(1, MaxRetries)}
    \cup {[lv |-> Campaign, retries |-> r, dates |-> d, pages |-> 1, drops |-> FALSE] :
        r \in 0..Min(1, MaxRetries), d \in SyncDateArgs}
    \cup {[lv |-> Campaign, retries |-> r, dates |-> d, pages |-> 1, drops |-> FALSE] :
        r \in 0..MaxRetries, d \in {x \in SyncDateArgs : TotalDaysOf(x.dr) <= SingleChunkDays}}
    \cup {[lv |-> Campaign, retries |-> r, dates |-> OneDay, pages |-> 1, drops |-> TRUE] :
        r \in 0..Min(1, MaxRetries)}

\* _maybe_sleep(): nothing when the limiter is off; the first call of a
\* _fetch_and_load only records the time; later calls sleep until min_interval
\* has passed since last_time and record the time after the sleep.
MaybeSleep ==
    IF min_interval <= 0
    THEN UNCHANGED <<now, last_time>>
    ELSE IF last_time = NoTime
    THEN /\ last_time' = now
         /\ now' = now
    ELSE LET elapsed == now - last_time
             woke == IF elapsed < min_interval THEN now + (min_interval - elapsed) ELSE now
         IN /\ now' = woke
            /\ last_time' = woke

\* How long a page request takes. The clock is read by the limiter only, so
\* request latency is distinguished only when the limiter is on.
Latency == IF min_interval > 0 THEN 0..MaxLatency ELSE {0}

\* backoff_time = retry_backoff * (2 ** (attempt - 1)), attempt already incremented
BackoffTimeFromAttempt(b, a) == b * (2 ^ a)
BackoffTime(b, a) == b * (2 ^ (a - 1))

\* What a page request can raise: RuntimeError on a non-200 response ("fetch");
\* ValueError from float(row.get("spend") or 0.0) on a spend that is not a number.
FetchErrors == IF api_bad THEN {"fetch", "ValueError"} ELSE {"fetch"}

\* `if attempt > retries: raise`, evaluated after attempt += 1
RetryExhaustedEarly(a, r) == a >= r
RetryExhausted(a, r) == a > r

notSync == <<chunkVars, loadVars>>

\* `if levels:` chooses between the loop over levels and the fallback loop.
SyncBegin ==
    /\ spc = "begin"
    /\ total' = 0
    /\ IF LevelsGiven
       THEN /\ li' = 1
            /\ spc' = "for_level"
            /\ UNCHANGED <<tried_levels, current_level>>
       ELSE /\ tried_levels' = << >>
            /\ current_level' = level
            /\ spc' = "while_level"
            /\ li' = li
    /\ UNCHANGED <<dp, fetch_call, timeVars>>
    /\ UNCHANGED histVars
    /\ UNCHANGED <<syncArgs, auxVars, entryVars, result, run_level, rows, loaded_count, chunk, attempt, page,
                   calls, fails, err, raised, ran, pages, after_merge_fail, notSync>>

\* Entry of _fetch_and_load(lv, resolved.date_range): its locals, and the iterator.
FetchAndLoadEnterKeepPreset(lv) ==
    /\ run_level' = lv
    /\ rows' = << >>
    /\ loaded_count' = 0
    /\ last_time' = NoTime
    /\ gen' = GenStart
    /\ dp' = date_preset
    /\ spc' = "for_chunk"
FetchAndLoadEnter(lv) ==
    /\ run_level' = lv
    /\ rows' = << >>
    /\ loaded_count' = 0
    /\ last_time' = NoTime
    /\ gen' = GenStart
    /\ dp' = IF dr # NoRange THEN Null ELSE date_preset
    /\ spc' = "for_chunk"

\* for lv in levels: total += _fetch_and_load(lv, ...); then return
SyncForLevel ==
    /\ spc = "for_level"
    /\ IF li <= Len(levels[1])
       THEN /\ FetchAndLoadEnter(levels[1][li])
            /\ result' = result
       ELSE /\ spc' = "returned"
            /\ result' = total
            /\ UNCHANGED <<run_level, rows, loaded_count, gen, dp, last_time>>
    /\ UNCHANGED <<fetch_call, now, prev_req, req_gap>>
    /\ UNCHANGED histVars
    /\ UNCHANGED <<syncArgs, auxVars, entryVars, current_level, tried_levels, li, total, chunk, attempt, page,
                   calls, fails, err, raised, ran, pages, after_merge_fail,
                   dr, chunk_days, yielded, loadVars>>

\* while True: tried_levels.append(current_level); _fetch_and_load(current_level, ...)
SyncWhileLevel ==
    /\ spc = "while_level"
    /\ tried_levels' = Append(tried_levels, current_level)
    /\ FetchAndLoadEnter(current_level)
    /\ UNCHANGED <<fetch_call, now, prev_req, req_gap>>
    /\ UNCHANGED histVars
    /\ UNCHANGED <<syncArgs, auxVars, entryVars, current_level, li, total, result, chunk, attempt, page,
                   calls, fails, err, raised, ran, pages, after_merge_fail,
                   dr, chunk_days, yielded, loadVars>>

\* _fetch_and_load returned loaded_count to the loop that called it.
SyncLevelDoneLast ==
    /\ spc = "fl_return"
    /\ total' = loaded_count
    /\ ran' = Append(ran, [level |-> run_level, rows |-> loaded_count])
    /\ IF LevelsGiven
       THEN /\ li' = li + 1
            /\ spc' = "for_level"
            /\ UNCHANGED <<current_level, result>>
       ELSE /\ li' = li
            /\ IF ~fallback_levels \/ loaded_count > 0
                  \/ NextIndex(current_level) > Len(FALLBACK_ORDER)
               THEN /\ spc' = "returned"
                    /\ result' = loaded_count
                    /\ current_level' = current_level
               ELSE /\ spc' = "while_level"
                    /\ current_level' = FALLBACK_ORDER[NextIndex(current_level)]
                    /\ result' = result
    /\ UNCHANGED <<dp, fetch_call, timeVars>>
    /\ UNCHANGED histVars
    /\ UNCHANGED <<syncArgs, auxVars, entryVars, tried_levels, run_level, rows, loaded_count, chunk, attempt,
                   page, calls, fails, err, raised, pages, after_merge_fail, notSync>>
SyncLevelDone ==
    /\ spc = "fl_return"
    /\ total' = total + loaded_count
    /\ ran' = Append(ran, [level |-> run_level, rows |-> loaded_count])
    /\ IF LevelsGiven
       THEN /\ li' = li + 1
            /\ spc' = "for_level"
            /\ UNCHANGED <<current_level, result>>
       ELSE /\ li' = li
            /\ IF ~fallback_levels \/ loaded_count > 0
                  \/ NextIndex(current_level) > Len(FALLBACK_ORDER)
               THEN /\ spc' = "returned"
                    /\ result' = total + loaded_count
                    /\ current_level' = current_level
               ELSE /\ spc' = "while_level"
                    /\ current_level' = FALLBACK_ORDER[NextIndex(current_level)]
                    /\ result' = result
    /\ UNCHANGED <<dp, fetch_call, timeVars>>
    /\ UNCHANGED histVars
    /\ UNCHANGED <<syncArgs, auxVars, entryVars, tried_levels, run_level, rows, loaded_count, chunk, attempt,
                   page, calls, fails, err, raised, pages, after_merge_fail, notSync>>

\* for chunk in dr_iter: attempt = 0   (dr_iter is [None] when there is no range)
NextChunk ==
    IF dr = NoRange
    THEN IF gen.pc = "start"
         THEN [out |-> <<NoRange>>, gen |-> [pc |-> "done", cursor |-> 0]]
         ELSE [out |-> << >>, gen |-> gen]
    ELSE GenStep(dr, chunk_days, gen)

ForChunkKeepAttempt ==
    /\ spc = "for_chunk"
    /\ gen' = NextChunk.gen
    /\ IF NextChunk.out = << >>
       THEN /\ spc' = "fl_return"
            /\ UNCHANGED <<chunk, attempt, calls, fails, after_merge_fail, slept>>
       ELSE /\ chunk' = NextChunk.out[1]
            /\ attempt' = attempt
            /\ calls' = 0
            /\ fails' = 0
            /\ after_merge_fail' = FALSE
            /\ slept' = << >>
            /\ spc' = "try"
    /\ UNCHANGED <<dp, fetch_call, timeVars>>
    /\ UNCHANGED <<resp_log, fetched, expect>>
    /\ UNCHANGED <<syncArgs, auxVars, entryVars, current_level, tried_levels, li, total, result, run_level,
                   rows, loaded_count, page, err, raised, ran, pages,
                   dr, chunk_days, yielded, loadVars>>
ForChunk ==
    /\ spc = "for_chunk"
    /\ gen' = NextChunk.gen
    /\ IF NextChunk.out = << >>
       THEN /\ spc' = "fl_return"
            /\ UNCHANGED <<chunk, attempt, calls, fails, after_merge_fail, slept>>
       ELSE /\ chunk' = NextChunk.out[1]
            /\ attempt' = 0
            /\ calls' = 0
            /\ fails' = 0
            /\ after_merge_fail' = FALSE
            /\ slept' = << >>
            /\ spc' = "try"
    /\ UNCHANGED <<dp, fetch_call, timeVars>>
    /\ UNCHANGED <<resp_log, fetched, expect>>
    /\ UNCHANGED <<syncArgs, auxVars, entryVars, current_level, tried_levels, li, total, result, run_level,
                   rows, loaded_count, page, err, raised, ran, pages,
                   dr, chunk_days, yielded, loadVars>>

\* try: _maybe_sleep(); adapter.fetch_insights(level=run_level, date_range=chunk, ...)
TryUnit ==
    /\ spc = "try"
    /\ calls' = calls + 1
    /\ page' = 0
    /\ pages' = << >>
    /\ spc' = "fetch"
    /\ MaybeSleep
    /\ fetch_call' = [made |-> TRUE, date_range |-> chunk, date_preset |-> dp]
    /\ UNCHANGED <<dp, prev_req, req_gap>>
    /\ resp_log' = << >>
    /\ fetched' = << >>
    /\ UNCHANGED <<expect, slept>>
    /\ UNCHANGED <<syncArgs, auxVars, entryVars, current_level, tried_levels, li, total, result, run_level,
                   rows, loaded_count, chunk, attempt, fails, err, raised, ran,
                   after_merge_fail, notSync>>

\* A response of the Graph API: status code, the records of its data, and
\* whether paging.next is there. A RuntimeError comes from a non-200 response,
\* a ValueError from a 200 response whose row holds a spend that is not a number.
Response(st, recs, more) == [status |-> st, data |-> recs, next |-> more]
ErrorResponse(e) == Response(IF e = "fetch" THEN 500 ELSE 200, << >>, FALSE)

\* One page request of fetch_insights and the loop over its records.
FetchPageEndOnError ==
    /\ spc = "fetch"
    /\ pages' = Append(pages, page)
    /\ \/ \E recs \in PageContents(page), more \in BOOLEAN :
            /\ more => page + 1 < api_pages
            /\ rows' = rows \o ToRows(recs, run_level)
            /\ page' = page + 1
            /\ spc' = IF more THEN "fetch" ELSE "fetched"
            /\ resp_log' = Append(resp_log, Response(200, recs, more))
            /\ fetched' = fetched \o recs
            /\ UNCHANGED <<fails, err>>
       \/ \E e \in FetchErrors :
            /\ fails' = fails + 1
            /\ err' = e
            /\ spc' = "fetched"
            /\ resp_log' = Append(resp_log, ErrorResponse(e))
            /\ UNCHANGED <<rows, page, fetched>>
    /\ prev_req' = now
    /\ req_gap' = IF prev_req = NoTime THEN req_gap
                  ELSE IF req_gap = NoTime THEN now - prev_req
                  ELSE Min(req_gap, now - prev_req)
    /\ \E d \in Latency : now' = now + d
    /\ UNCHANGED <<dp, fetch_call, last_time>>
    /\ UNCHANGED <<expect, slept>>
    /\ UNCHANGED <<syncArgs, auxVars, entryVars, current_level, tried_levels, li, total, result, run_level,
                   loaded_count, chunk, attempt, calls, raised, ran, after_merge_fail,
                   notSync>>
FetchPage ==
    /\ spc = "fetch"
    /\ pages' = Append(pages, page)
    /\ \/ \E recs \in PageContents(page), more \in BOOLEAN :
            /\ more => page + 1 < api_pages
            /\ rows' = rows \o ToRows(recs, run_level)
            /\ page' = page + 1
            /\ spc' = IF more THEN "fetch" ELSE "fetched"
            /\ resp_log' = Append(resp_log, Response(200, recs, more))
            /\ fetched' = fetched \o recs
            /\ UNCHANGED <<fails, err>>
       \/ \E e \in FetchErrors :
            /\ fails' = fails + 1
            /\ err' = e
            /\ spc' = "except"
            /\ resp_log' = Append(resp_log, ErrorResponse(e))
            /\ UNCHANGED <<rows, page, fetched>>
    /\ prev_req' = now
    /\ req_gap' = IF prev_req = NoTime THEN req_gap
                  ELSE IF req_gap = NoTime THEN now - prev_req
                  ELSE Min(req_gap, now - prev_req)
    /\ \E d \in Latency : now' = now + d
    /\ UNCHANGED <<dp, fetch_call, last_time>>
    /\ UNCHANGED <<expect, slept>>
    /\ UNCHANGED <<syncArgs, auxVars, entryVars, current_level, tried_levels, li, total, result, run_level,
                   loaded_count, chunk, attempt, calls, raised, ran, after_merge_fail,
                   notSync>>

\* if rows: load_json_rows(..., rows=rows)   else: break
AfterFetch ==
    /\ spc = "fetched"
    /\ IF rows # << >>
       THEN /\ LoadEnter(rows, FALSE)
            /\ spc' = "loading"
            /\ nloads' = nloads + 1
            /\ nrows' = nrows + Len(rows)
            /\ UNCHANGED <<resp_log, fetched>>
       ELSE /\ spc' = "for_chunk"
            /\ resp_log' = << >>
            /\ fetched' = << >>
            /\ UNCHANGED loadVars
    /\ UNCHANGED <<expect, slept>>
    /\ UNCHANGED <<dp, fetch_call, timeVars>>
    /\ UNCHANGED <<syncArgs, auxVars, entryVars, current_level, tried_levels, li, total, result, run_level,
                   rows, loaded_count, chunk, attempt, page, calls, fails, err, raised,
                   ran, pages, after_merge_fail, chunkVars>>

\* load_json_rows returned: loaded_count += len(rows); rows.clear(); break
LoadReturned ==
    /\ spc = "loading" /\ lpc = "returned"
    /\ loaded_count' = loaded_count + Len(rows)
    /\ rows' = << >>
    /\ spc' = "for_chunk"
    /\ UNCHANGED <<dp, fetch_call, timeVars>>
    /\ expect' = expect + Len(fetched)
    /\ resp_log' = << >>
    /\ fetched' = << >>
    /\ slept' = slept
    /\ UNCHANGED <<syncArgs, auxVars, entryVars, current_level, tried_levels, li, total, result, run_level,
                   chunk, attempt, page, calls, fails, err, raised, ran, pages,
                   after_merge_fail, notSync>>

\* load_json_rows raised inside the try block.
LoadRaised ==
    /\ spc = "loading" /\ lpc = "raised"
    /\ fails' = fails + 1
    /\ err' = IF dfail THEN "drop" ELSE lfail
    /\ spc' = "except"
    /\ UNCHANGED <<dp, fetch_call, timeVars>>
    /\ UNCHANGED histVars
    /\ UNCHANGED <<syncArgs, auxVars, entryVars, current_level, tried_levels, li, total, result, run_level,
                   rows, loaded_count, chunk, attempt, page, calls, raised, ran, pages,
                   after_merge_fail, notSync>>

\* except Exception: attempt += 1; raise when attempt > retries, else sleep and loop
ExceptSwallow ==
    /\ spc = "except"
    /\ attempt' = attempt + 1
    /\ pages' = << >>
    /\ after_merge_fail' = (err = "merge" \/ (err = "drop" /\ lfail = "merge"))
    /\ IF RetryExhausted(attempt + 1, retries)
       THEN /\ spc' = "for_chunk"
            /\ raised' = raised
            /\ now' = now
            /\ slept' = slept
       ELSE /\ spc' = "try"
            /\ raised' = raised
            /\ now' = now + BackoffTime(retry_backoff, attempt + 1)
            /\ slept' = Append(slept, BackoffTime(retry_backoff, attempt + 1))
    /\ UNCHANGED <<dp, fetch_call, last_time, prev_req, req_gap>>
    /\ resp_log' = << >>
    /\ fetched' = << >>
    /\ expect' = expect
    /\ UNCHANGED <<syncArgs, auxVars, entryVars, current_level, tried_levels, li, total, result, run_level,
                   rows, loaded_count, chunk, page, calls, fails, err, ran, notSync>>
ExceptReload ==
    /\ spc = "except"
    /\ attempt' = attempt + 1
    /\ pages' = << >>
    /\ after_merge_fail' = (err = "merge" \/ (err = "drop" /\ lfail = "merge"))
    /\ IF RetryExhausted(attempt + 1, retries)
       THEN /\ spc' = "raised"
            /\ raised' = err
            /\ now' = now
            /\ slept' = slept
       ELSE /\ spc' = IF err = "merge" THEN "fetched" ELSE "try"
            /\ raised' = raised
            /\ now' = now + BackoffTime(retry_backoff, attempt + 1)
            /\ slept' = Append(slept, BackoffTime(retry_backoff, attempt + 1))
    /\ UNCHANGED <<dp, fetch_call, last_time, prev_req, req_gap>>
    /\ resp_log' = << >>
    /\ fetched' = << >>
    /\ expect' = expect
    /\ UNCHANGED <<syncArgs, auxVars, entryVars, current_level, tried_levels, li, total, result, run_level,
                   rows, loaded_count, chunk, page, calls, fails, err, ran, notSync>>
Except ==
    /\ spc = "except"
    /\ attempt' = attempt + 1
    /\ pages' = << >>
    /\ after_merge_fail' = (err = "merge" \/ (err = "drop" /\ lfail = "merge"))
    /\ IF RetryExhausted(attempt + 1, retries)
       THEN /\ spc' = "raised"
            /\ raised' = err
            /\ now' = now
            /\ slept' = slept
       ELSE /\ spc' = "try"
            /\ raised' = raised
            /\ now' = now + BackoffTime(retry_backoff, attempt + 1)
            /\ slept' = Append(slept, BackoffTime(retry_backoff, attempt + 1))
    /\ UNCHANGED <<dp, fetch_call, last_time, prev_req, req_gap>>
    /\ resp_log' = << >>
    /\ fetched' = << >>
    /\ expect' = expect
    /\ UNCHANGED <<syncArgs, auxVars, entryVars, current_level, tried_levels, li, total, result, run_level,
                   rows, loaded_count, chunk, page, calls, fails, err, ran, notSync>>

\* ===========================================================================
\* Date resolution and the prologue of sync_meta_insights
\* ===========================================================================
DatePresets ==
    {"today", "yesterday", "last_3d", "last_7d", "last_14d", "last_28d",
     "this_month", "last_month", "lifetime"}

\* date.fromisoformat on the date strings of the model: the day ordinal of a
\* YYYY-MM-DD string of year 1; any other string raises ValueError.
IsoOrdinal ==
    [x \in {"0001-02-10", "0001-02-12", "0001-04-11"} |->
        CASE x = "0001-02-10" -> 41
          [] x = "0001-02-12" -> 43
          [] x = "0001-04-11" -> 101]
ValidDate(x) == x \in DOMAIN IsoOrdinal

\* Truthiness of an optional string: None and "" are false.
Truthy(x) == x # Null /\ x # ""

\* d.replace(day=1) for a day of year 1
MonthStarts == <<1, 32, 60, 91, 121, 152, 182, 213, 244, 274, 305, 335>>
FirstOfMonth(d) ==
    LET m == CHOOSE i \in 1..12 :
                 MonthStarts[i] <= d /\ (i = 12 \/ MonthStarts[i + 1] > d)
    IN MonthStarts[m]

\* _preset_to_range(preset, now) with d = now.date(): <<since, until>>, or << >> for None
_preset_to_range(preset, d) ==
    CASE preset = "today" -> <<d, d>>
      [] preset = "yesterday" -> <<d - 1, d - 1>>
      [] preset = "last_3d" -> <<d - 3, d - 1>>
      [] preset = "last_7d" -> <<d - 7, d - 1>>
      [] preset = "last_14d" -> <<d - 14, d - 1>>
      [] preset = "last_28d" -> <<d - 28, d - 1>>
      [] preset = "this_month" -> <<FirstOfMonth(d), d>>
      [] preset = "last_month" ->
            LET first_this == FirstOfMonth(d)
                last_prev == first_this - 1
            IN <<FirstOfMonth(last_prev), last_prev>>
      [] OTHER -> << >>

\* _ResolvedDates(date_range, date_preset); kind "ValueError" when _resolve_dates raises
_ResolvedDates(r, p) == [kind |-> "resolved", date_range |-> r, date_preset |-> p]
NoResolved == [kind |-> "none"]
ResolveError == [kind |-> "ValueError"]

_resolve_datesKeepPreset(preset, s, u, d) ==
    IF Truthy(s) \/ Truthy(u)
    THEN IF ~(Truthy(s) /\ Truthy(u)) THEN ResolveError
         ELSE IF ~ValidDate(s) \/ ~ValidDate(u) THEN ResolveError
         ELSE _ResolvedDates(DateRange(IsoOrdinal[s], IsoOrdinal[u]), preset)
    ELSE IF preset # Null
    THEN LET rng == _preset_to_range(preset, d)
         IN IF rng = << >> THEN _ResolvedDates(NoRange, preset)
            ELSE _ResolvedDates(DateRange(rng[1], rng[2]), Null)
    ELSE _ResolvedDates(DateRange(d - 1, d - 1), Null)
_resolve_datesLenient(preset, s, u, d) ==
    IF Truthy(s) /\ Truthy(u) /\ ValidDate(s) /\ ValidDate(u)
    THEN _ResolvedDates(DateRange(IsoOrdinal[s], IsoOrdinal[u]), Null)
    ELSE IF preset # Null
    THEN LET rng == _preset_to_range(preset, d)
         IN IF rng = << >> THEN _ResolvedDates(NoRange, preset)
            ELSE _ResolvedDates(DateRange(rng[1], rng[2]), Null)
    ELSE _ResolvedDates(DateRange(d - 1, d - 1), Null)
_resolve_datesToday(preset, s, u, d) ==
    IF Truthy(s) \/ Truthy(u)
    THEN IF ~(Truthy(s) /\ Truthy(u)) THEN ResolveError
         ELSE IF ~ValidDate(s) \/ ~ValidDate(u) THEN ResolveError
         ELSE _ResolvedDates(DateRange(IsoOrdinal[s], IsoOrdinal[u]), Null)
    ELSE IF preset # Null
    THEN LET rng == _preset_to_range(preset, d)
         IN IF rng = << >> THEN _ResolvedDates(NoRange, preset)
            ELSE _ResolvedDates(DateRange(rng[1], rng[2]), Null)
    ELSE _ResolvedDates(DateRange(d, d), Null)
_resolve_dates(preset, s, u, d) ==
    IF Truthy(s) \/ Truthy(u)
    THEN IF ~(Truthy(s) /\ Truthy(u)) THEN ResolveError
         ELSE IF ~ValidDate(s) \/ ~ValidDate(u) THEN ResolveError
         ELSE _ResolvedDates(DateRange(IsoOrdinal[s], IsoOrdinal[u]), Null)
    ELSE IF preset # Null
    THEN LET rng == _preset_to_range(preset, d)
         IN IF rng = << >> THEN _ResolvedDates(NoRange, preset)
            ELSE _ResolvedDates(DateRange(rng[1], rng[2]), Null)
    ELSE _ResolvedDates(DateRange(d - 1, d - 1), Null)

\* The body's variables, which the prologue and the command leave alone.
bodyVars == <<current_level, tried_levels, li, total, result, run_level, rows,
              loaded_count, chunk, attempt, page, calls, fails, err, ran, pages,
              after_merge_fail, dp, fetch_call, timeVars, histVars>>

\* resolved = _resolve_dates(date_preset=date_preset, since=since, until=until)
SyncResolve ==
    /\ spc = "resolve"
    /\ LET r == _resolve_dates(date_preset, since, until, today)
       IN IF r = ResolveError
          THEN /\ spc' = "raised"
               /\ raised' = "ValueError"
               /\ UNCHANGED <<resolved, dr>>
          ELSE /\ resolved' = r
               /\ dr' = r.date_range
               /\ spc' = "ensure"
               /\ raised' = raised
    /\ UNCHANGED <<syncArgs, auxVars, bodyVars, ops, cpc, opt_date_preset, opt_levels, exit_code,
                   cli_out, chunk_days, gen, yielded, loadVars>>

\* adapter = MetaAdapter(...); ensure_dataset; ensure_insights_table;
\* ensure_dim_ad_table -- any of the three warehouse calls may raise.
Prologue == <<"adapter", "ensure_dataset", "ensure_insights_table", "ensure_dim_ad_table">>
SyncEnsure ==
    /\ spc = "ensure"
    /\ \/ /\ ops' = ops \o Prologue
          /\ spc' = "begin"
          /\ raised' = raised
       \/ \E k \in 2..Len(Prologue) :
            /\ ops' = ops \o SubSeq(Prologue, 1, k)
            /\ spc' = "raised"
            /\ raised' = "ensure"
    /\ UNCHANGED <<syncArgs, auxVars, bodyVars, resolved, cpc, opt_date_preset, opt_levels,
                   exit_code, cli_out, notSync>>

\* ===========================================================================
\* The sync-insights command, from the date precedence check to its exit
\* ===========================================================================
\* [p.strip().lower() for p in levels.split(",") if p.strip()], each made an
\* Entity: << >> is None (no or empty option), "error" an unknown level name.
ParseLevels(x) ==
    CASE x = Null \/ x = "" -> << >>
      [] x = "," -> << << >> >>
      [] x = "campaign,ad" -> << <<"campaign", "ad">> >>
      [] OTHER -> "error"

\* `since > until` on two date strings: for zero-padded YYYY-MM-DD strings the
\* order of the strings is the order of the dates.
StrGreater(a, b) == IsoOrdinal[a] > IsoOrdinal[b]

CliWarning == "--date-preset provided together with --since/--until; explicit dates will be used."
CliSinceError == "--since must be in YYYY-MM-DD format."
CliUntilError == "--until must be in YYYY-MM-DD format."
CliOrderError == "--since cannot be after --until."
CliLevelsError == "Invalid --levels value."
CliSyncFailed == "Sync failed"
CliLoaded == "Loaded rows"

\* Date precedence, date validation and level parsing, then the call of
\* sync_meta_insights (which starts at its first statement).
CliCommand ==
    /\ cpc = "start"
    /\ LET conflict == date_preset # Null /\ (Truthy(since) \/ Truthy(until))
           out == IF conflict THEN <<CliWarning>> ELSE << >>
           fail == IF Truthy(since) /\ ~ValidDate(since) THEN <<CliSinceError>>
                   ELSE IF Truthy(until) /\ ~ValidDate(until) THEN <<CliUntilError>>
                   ELSE IF Truthy(since) /\ Truthy(until) /\ StrGreater(since, until)
                   THEN <<CliOrderError>>
                   ELSE IF ParseLevels(opt_levels) = "error" THEN <<CliLevelsError>>
                   ELSE << >>
       IN /\ date_preset' = IF conflict THEN Null ELSE date_preset
          /\ cli_out' = cli_out \o out \o fail
          /\ IF fail # << >>
             THEN /\ exit_code' = 1
                  /\ cpc' = "exit"
                  /\ UNCHANGED <<levels, spc>>
             ELSE /\ levels' = ParseLevels(opt_levels)
                  /\ spc' = "resolve"
                  /\ cpc' = "calling"
                  /\ exit_code' = exit_code
    /\ UNCHANGED <<auxVars, level, fallback_levels, retries, retry_backoff, min_interval, since,
                   until, today, api_bad, api_pages, wh_drop_fails, bodyVars, raised, resolved, ops,
                   opt_date_preset, opt_levels, notSync>>

\* sync_meta_insights returned its summary or raised: success message, or
\* "Sync failed" and exit code 1.
CliReturn ==
    /\ cpc = "calling"
    /\ spc \in {"returned", "raised"}
    /\ cpc' = "exit"
    /\ exit_code' = IF spc = "returned" THEN 0 ELSE 1
    /\ cli_out' = Append(cli_out, IF spc = "returned" THEN CliLoaded ELSE CliSyncFailed)
    /\ UNCHANGED <<auxVars, spc, syncArgs, bodyVars, raised, resolved, ops, opt_date_preset,
                   opt_levels, notSync>>

\* ===========================================================================
\* meta_sync_insights_tool
\* ===========================================================================
NoOut == [success |-> FALSE, rows |-> NoResult, returned |-> FALSE]
ToolOut(ok, n) == [success |-> ok, rows |-> n, returned |-> TRUE]

\* DatePreset(date_preset.upper()): the members' values are lower-case, so no
\* upper-cased string is one of them and the constructor raises ValueError.
Upper(x) ==
    CASE x = "yesterday" -> "YESTERDAY"
      [] x = "last_7d" -> "LAST_7D"
      [] OTHER -> x
DatePresetOf(x) == IF x \in DatePresets THEN x ELSE "ValueError"

\* The dict sync_meta_insights returns, and dict.get(key, default).
SyncSummary == [rows |-> result, table |-> "fct_ad_insights_daily"]
DictGet(d, k, default) == IF k \in DOMAIN d THEN d[k] ELSE default

\* The tool is a coroutine: with a Context it hands control back to the event
\* loop at every `await ctx.info(...)` and `await ctx.error(...)`, so each of
\* its steps below runs from one of these points to the next (without a Context
\* the same steps follow one another with no suspension). account_id, level and
\* tenant are well-formed and the access token is set.
notTool == <<parseVars, peerVars, limVars, notSync>>
toolSync == <<level, levels, fallback_levels, retries, retry_backoff, min_interval, since,
              until, today, api_bad, api_pages, wh_drop_fails, bodyVars, raised, resolved, ops, cpc,
              opt_date_preset, opt_levels, exit_code, cli_out>>

\* The argument checks and the preset conversion, up to the first ctx.info, or
\* up to ctx.error when the conversion raises.
ToolCommand ==
    /\ tpc = "start"
    /\ LET converted == IF tool_preset # Null THEN DatePresetOf(Upper(tool_preset))
                        ELSE tool_preset
       IN IF converted = "ValueError"
          THEN /\ tpc' = "error"
               /\ preset_enum' = preset_enum
          ELSE /\ tpc' = "info_start"
               /\ preset_enum' = converted
    /\ UNCHANGED <<tool_preset, tool_rows, tool_out, date_preset, spc, toolSync, notTool>>

\* get_tenant and the token lookup, up to the second ctx.info.
ToolTenant ==
    /\ tpc = "info_start"
    /\ tpc' = "info_sync"
    /\ UNCHANGED <<tool_preset, preset_enum, tool_rows, tool_out, date_preset, spc, toolSync,
                   notTool>>

\* result = sync_meta_insights(..., date_preset=preset_enum, since=since, until=until)
ToolCall ==
    /\ tpc = "info_sync"
    /\ date_preset' = preset_enum
    /\ spc' = "resolve"
    /\ tpc' = "calling"
    /\ UNCHANGED <<tool_preset, preset_enum, tool_rows, tool_out, toolSync, notTool>>

\* sync_meta_insights returned: rows = result.get("rows_loaded", 0), up to the
\* third ctx.info; or it raised: the handler, up to ctx.error.
ToolSynced ==
    /\ tpc = "calling"
    /\ spc \in {"returned", "raised"}
    /\ IF spc = "returned"
       THEN /\ tool_rows' = DictGet(SyncSummary, "rows_loaded", 0)
            /\ tpc' = "info_done"
       ELSE /\ tool_rows' = tool_rows
            /\ tpc' = "error"
    /\ UNCHANGED <<tool_preset, preset_enum, tool_out, date_preset, spc, toolSync, notTool>>

\* The dict handed to the caller on success ...
ToolReturn ==
    /\ tpc = "info_done"
    /\ tpc' = "done"
    /\ tool_out' = ToolOut(TRUE, tool_rows)
    /\ UNCHANGED <<tool_preset, preset_enum, tool_rows, date_preset, spc, toolSync, notTool>>

\* ... and on an exception.
ToolFailed ==
    /\ tpc = "error"
    /\ tpc' = "done"
    /\ tool_out' = ToolOut(FALSE, NoResult)
    /\ UNCHANGED <<tool_preset, preset_enum, tool_rows, date_preset, spc, toolSync, notTool>>

\* ===========================================================================
\* RateLimiter
\* ===========================================================================
\* Tokens are kept in 60ths of a token, so that the refill of
\* elapsed * (requests_per_minute / 60) per whole second is exact.
TokenUnit == 60
Tenants == {"tenant_a", "tenant_b"}

\* self.buckets[tenant_id]: the key of the bucket a call works on
BucketKeyShared(tenant_id) == "shared"
BucketKey(tenant_id) == tenant_id

\* The defaultdict factory: a full bucket stamped with the current time.
NewBucket == [tokens |-> requests_per_minute * TokenUnit, last_update |-> clock]

\* The bucket after the refill: min(requests_per_minute, tokens + tokens_to_add)
Refilled(bucket) ==
    [tokens |-> Min(requests_per_minute * TokenUnit,
                    bucket.tokens + (clock - bucket.last_update) * requests_per_minute),
     last_update |-> clock]

\* check_limit(tenant_id): the outcome is "allowed", "denied" (with retry_after)
\* or the ZeroDivisionError of the division by requests_per_minute.
check_limit(tenant_id) ==
    LET key == BucketKey(tenant_id)
        found == IF key \in DOMAIN buckets THEN buckets[key] ELSE NewBucket
        bucket == Refilled(found)
        allowed == bucket.tokens >= TokenUnit
        bucket2 == IF allowed THEN [bucket EXCEPT !.tokens = @ - TokenUnit] ELSE bucket
        outcome == IF allowed THEN "allowed"
                   ELSE IF requests_per_minute = 0 THEN "ZeroDivisionError"
                   ELSE "denied"
        retry_after == IF outcome = "denied"
                       THEN (TokenUnit - bucket.tokens) \div requests_per_minute
                       ELSE 0
        after == (key :> bucket2) @@ buckets
    IN /\ Len(lim_log) < MaxCalls
       /\ buckets' = after
       /\ lim_log' = Append(lim_log,
                        [tenant |-> tenant_id, at |-> clock, outcome |-> outcome,
                         retry_after |-> retry_after, refilled |-> bucket.tokens,
                         pre |-> buckets, post |-> after])
       /\ UNCHANGED <<requests_per_minute, clock>>
       /\ UNCHANGED <<chunkVars, loadVars, syncVars, parseVars, peerVars, toolVars>>

\* Time passes between two calls.
LimiterTick ==
    /\ clock + TickSeconds <= MaxTicks * TickSeconds
    /\ clock' = clock + TickSeconds
    /\ UNCHANGED <<requests_per_minute, buckets, lim_log>>
    /\ UNCHANGED <<chunkVars, loadVars, syncVars, parseVars, peerVars, toolVars>>

\* ===========================================================================
\* fetch_insights: from the rows of a response to InsightRecords
\* ===========================================================================
\* What a numeric field of an upstream row may hold: nothing (None), or a
\* string. A float is written as Python prints it ("7.0").
RawValues == {Null, "", "7", "1.5", "abc"}
IntOf == [x \in {"7"} |-> 7]
FloatOf == [x \in {"7", "1.5"} |-> IF x = "7" THEN "7.0" ELSE "1.5"]

\* _safe_int(value): int(value), or 0 on TypeError / ValueError
_safe_int(v) == IF v \in DOMAIN IntOf THEN IntOf[v] ELSE 0
\* _safe_float(value): float(value), or None on TypeError / ValueError
_safe_float(v) == IF v \in DOMAIN FloatOf THEN FloatOf[v] ELSE Null
\* float(row.get("spend") or 0.0): "raise" stands for the ValueError
SpendOf(v) ==
    IF ~Truthy(v) THEN "0.0"
    ELSE IF v \in DOMAIN FloatOf THEN FloatOf[v]
    ELSE "raise"

UpRow(i, c, s, t, f) ==
    [date_start |-> "0001-02-10", impressions |-> i, clicks |-> c, spend |-> s,
     ctr |-> t, frequency |-> f, actions |-> Null]
\* InsightRecord(...) as fetch_insights builds it from an upstream row
InsightRecord(w) ==
    [date |-> IsoOrdinal[w.date_start],
     impressions |-> _safe_int(w.impressions),
     clicks |-> _safe_int(w.clicks),
     spend |-> SpendOf(w.spend),
     conversions |-> Null,
     ctr |-> _safe_float(w.ctr),
     frequency |-> _safe_float(w.frequency),
     raw |-> w]

\* One turn of `for row in rows:` -- the record is yielded, or float() raises
\* and the generator is finished.
ParseRow ==
    /\ perr = "none"
    /\ ppos <= Len(up_rows)
    /\ IF SpendOf(up_rows[ppos].spend) = "raise"
       THEN /\ perr' = "ValueError"
            /\ UNCHANGED <<ppos, precs>>
       ELSE /\ precs' = Append(precs, InsightRecord(up_rows[ppos]))
            /\ ppos' = ppos + 1
            /\ perr' = perr
    /\ UNCHANGED <<up_rows, chunkVars, loadVars, syncVars, peerVars, toolVars, limVars>>

\* The upstream rows of the model: a well-formed row, and the rows that differ
\* from it in one numeric field.
GoodRow == UpRow("7", "7", "1.5", "1.5", "1.5")
UpRows ==
    {[GoodRow EXCEPT ![f] = v] :
        f \in {"impressions", "clicks", "spend", "ctr", "frequency"}, v \in RawValues}
ParseIdle ==
    /\ up_rows = << >>
    /\ ppos = 1
    /\ precs = << >>
    /\ perr = "none"
PeerIdle ==
    /\ peer_lpc = "idle"
    /\ peer_batch = << >>
    /\ peer_stg = NoName
    /\ peer_lfail = "none"
    /\ peer_dfail = FALSE
    /\ peer_merged = FALSE
ToolIdle ==
    /\ tpc = "none"
    /\ tool_preset = Null
    /\ preset_enum = Null
    /\ tool_rows = NoResult
    /\ tool_out = NoOut
LimIdle ==
    /\ requests_per_minute = 60
    /\ buckets = << >>
    /\ clock = 0
    /\ lim_log = << >>
AuxIdle == ParseIdle /\ PeerIdle /\ ToolIdle /\ LimIdle

\* ===========================================================================
\* Specifications
\* ===========================================================================
LoadInit ==
    /\ lpc = "idle"
    /\ batch = << >>
    /\ stg_table = NoName
    /\ lfail = "none"
    /\ dfail = FALSE
    /\ tables = << >>
    /\ dest = EmptyBag
    /\ uuid_next = 1
    /\ dest0 = EmptyBag
    /\ stg_prev = NoName
    /\ merged = FALSE
    /\ reload = FALSE
    /\ nloads = 0
    /\ nrows = 0
    /\ steps = << >>

ChunkIdle ==
    /\ dr = NoRange
    /\ chunk_days = 30
    /\ gen = GenStart
    /\ yielded = << >>

SyncLocals ==
    /\ current_level = "ad"
    /\ tried_levels = << >>
    /\ li = 1
    /\ total = 0
    /\ result = NoResult
    /\ run_level = "ad"
    /\ rows = << >>
    /\ loaded_count = 0
    /\ chunk = NoRange
    /\ attempt = 0
    /\ page = 0
    /\ calls = 0
    /\ fails = 0
    /\ err = "none"
    /\ raised = "none"
    /\ ran = << >>
    /\ pages = << >>
    /\ after_merge_fail = FALSE
    /\ dp = Null
    /\ fetch_call = [made |-> FALSE, date_range |-> NoRange, date_preset |-> Null]
    /\ now = 0
    /\ last_time = NoTime
    /\ prev_req = NoTime
    /\ req_gap = NoTime
    /\ resp_log = << >>
    /\ fetched = << >>
    /\ expect = 0
    /\ slept = << >>

\* No command is running: sync_meta_insights was called directly.
CliIdle ==
    /\ cpc = "none"
    /\ opt_date_preset = Null
    /\ opt_levels = Null
    /\ exit_code = NoResult
    /\ cli_out = << >>

SyncIdle ==
    /\ level = "ad"
    /\ levels = << >>
    /\ fallback_levels = TRUE
    /\ retries = 3
    /\ retry_backoff = 2
    /\ min_interval = 0
    /\ date_preset = Null
    /\ since = Null
    /\ until = Null
    /\ today = Day0
    /\ api_bad = FALSE
    /\ api_pages = MaxPages
    /\ wh_drop_fails = TRUE
    /\ spc = "begin"
    /\ resolved = NoResolved
    /\ ops = << >>
    /\ SyncLocals
    /\ CliIdle

InitChunks ==
    /\ dr \in ChunkRanges
    /\ chunk_days \in ChunkDaysSet
    /\ gen = GenStart
    /\ yielded = << >>
    /\ LoadInit
    /\ AuxIdle
    /\ SyncIdle

NextChunks == ChunksNext
SpecChunks == InitChunks /\ [][NextChunks]_vars
\* The consumer keeps calling next() on the generator until it stops.
SpecChunksLive == InitChunks /\ [][NextChunks]_vars /\ WF_vars(ChunksNext)

InitLoad == ChunkIdle /\ LoadInit /\ SyncIdle /\ AuxIdle
NextLoad ==
    \/ LoadCall
    \/ LoadAgain
    \/ LoadEmpty
    \/ LoadEnsure
    \/ LoadCreate
    \/ LoadStage
    \/ LoadMerge
    \/ LoadFinally
SpecLoad == InitLoad /\ [][NextLoad]_vars

\* A call of sync_meta_insights that has resolved its dates and run its prologue:
\* the date arguments are not read again, the resolved range is in dr.
InitSync ==
    /\ \E a \in SyncArgs :
         /\ level = a.lv.level
         /\ levels = a.lv.levels
         /\ fallback_levels = a.lv.fallback_levels
         /\ retries = a.retries
         /\ api_pages = a.pages
         /\ wh_drop_fails = a.drops
         /\ dr = a.dates.dr
         /\ chunk_days = a.dates.chunk_days
         /\ date_preset = IF a.dates.dr = NoRange THEN "lifetime" ELSE Null
    /\ since = Null
    /\ until = Null
    /\ today = Day0 + 1
    /\ retry_backoff = 0
    /\ min_interval = 0
    /\ api_bad = FALSE
    /\ spc = "begin"
    /\ resolved = _ResolvedDates(dr, date_preset)
    /\ ops = Prologue
    /\ gen = GenStart
    /\ yielded = << >>
    /\ LoadInit
    /\ AuxIdle
    /\ SyncLocals
    /\ CliIdle

NextSync ==
    \/ SyncBegin
    \/ SyncForLevel
    \/ SyncWhileLevel
    \/ SyncLevelDone
    \/ ForChunk
    \/ TryUnit
    \/ FetchPage
    \/ AfterFetch
    \/ LoadReturned
    \/ LoadRaised
    \/ Except
    \/ LoadEnsure
    \/ LoadCreate
    \/ LoadStage
    \/ LoadMerge
    \/ LoadFinally
SpecSync == InitSync /\ [][NextSync]_vars

\* A request from its entry: the sync-insights command, or a direct call of
\* sync_meta_insights (as the MCP tool makes it).
DateStrs == {Null, "", "0001-02-10", "0001-02-12", "0001-04-11", "02/10/0001"}
Todays == {45, 60}
NoFallback == [level |-> "campaign", levels |-> << >>, fallback_levels |-> FALSE]
Request(e, p, s, u, t, ol, lv, r, cd, mi, rb, bad) ==
    [entry |-> e, date_preset |-> p, since |-> s, until |-> u, today |-> t,
     opt_levels |-> ol, lv |-> lv, retries |-> r, chunk_days |-> cd,
     min_interval |-> mi, retry_backoff |-> rb, api_bad |-> bad,
     api_pages |-> IF r > 1 THEN 1 ELSE MaxPages, delete_fails |-> FALSE]
\* every combination of the date arguments, with one level and no retry ...
DateRequests ==
    {Request(e, p, s, u, t, Null, NoFallback, 0, 30, 0, 0, FALSE) :
        e \in {"cli", "direct"}, p \in DatePresets \cup {Null},
        s \in DateStrs, u \in DateStrs, t \in Todays}
\* ... the --levels option of the command ...
LevelsRequests ==
    {Request("cli", Null, Null, Null, 45, ol, NoFallback, 0, 30, 0, 0, FALSE) :
        ol \in {",", "campaign,ad", "campaign,bogus"}}
\* ... calls with the rate limiter on: one chunk with a retry, one chunk of
\* several pages, three chunks, and two levels ...
Adset == [level |-> "adset", levels |-> << >>, fallback_levels |-> TRUE]
TwoLevels == [level |-> "ad", levels |-> << <<"campaign", "ad">> >>, fallback_levels |-> TRUE]
RateRequest(u, lv, r, rb, pg) ==
    [Request("direct", Null, "0001-02-10", u, 45, Null, lv, r, 30, MinInterval, rb, FALSE)
        EXCEPT !.api_pages = pg]
RateRequests ==
    {RateRequest("0001-02-10", NoFallback, r, rb, 1) :
        r \in 0..Min(1, MaxRetries), rb \in {0, 1}}
    \cup {RateRequest("0001-02-10", NoFallback, 0, 0, MaxPages)}
    \cup {RateRequest("0001-04-11", NoFallback, 0, 0, 1)}
    \cup {RateRequest("0001-02-10", lv, 0, 0, 1) : lv \in {Adset, TwoLevels}}
\* ... and calls on an account whose data has a spend that is not a number.
BadDataRequests ==
    {Request("direct", Null, Null, Null, 45, Null, NoFallback, r, 30, 0, 0, TRUE) :
        r \in 0..MaxRetries}
\* ... calls with a retry backoff and no rate limit ...
BackoffRequests ==
    {Request("direct", Null, "0001-02-10", "0001-02-10", 45, Null, NoFallback, r, 30, 0, rb,
             FALSE) : r \in 0..MaxRetries, rb \in {1, 3}}
\* ... and calls of the MCP tool, which leaves sync's other arguments at their
\* defaults: with no date argument, a preset name, and a since that is no date.
DefaultRetries == 3
DefaultBackoff == 2
ToolLevel == [level |-> "campaign", levels |-> << >>, fallback_levels |-> TRUE]
ToolRequests ==
    {Request("tool", p, s, Null, 45, Null, ToolLevel, DefaultRetries, 30, 0, DefaultBackoff,
             FALSE) : p \in {Null, "last_7d"}, s \in {Null, "02/10/0001"}}
\* ... and calls on a warehouse whose delete_table may raise.
DropFailsRequests ==
    {[Request("direct", Null, "0001-02-10", "0001-02-10", 45, Null, NoFallback, r, 30, 0, 0,
              FALSE) EXCEPT !.delete_fails = TRUE] : r \in 0..Min(1, MaxRetries)}
Requests ==
    DateRequests \cup LevelsRequests \cup RateRequests \cup BadDataRequests
        \cup BackoffRequests \cup ToolRequests \cup DropFailsRequests

InitRequest ==
    /\ \E a \in Requests :
         /\ cpc = IF a.entry = "cli" THEN "start" ELSE "none"
         /\ spc = IF a.entry \in {"cli", "tool"} THEN "none" ELSE "resolve"
         /\ tpc = IF a.entry = "tool" THEN "start" ELSE "none"
         /\ tool_preset = IF a.entry = "tool" THEN a.date_preset ELSE Null
         /\ opt_date_preset = IF a.entry = "cli" THEN a.date_preset ELSE Null
         /\ opt_levels = a.opt_levels
         /\ date_preset = IF a.entry = "tool" THEN Null ELSE a.date_preset
         /\ since = a.since
         /\ until = a.until
         /\ today = a.today
         /\ level = a.lv.level
         /\ levels = a.lv.levels
         /\ fallback_levels = a.lv.fallback_levels
         /\ retries = a.retries
         /\ chunk_days = a.chunk_days
         /\ min_interval = a.min_interval
         /\ retry_backoff = a.retry_backoff
         /\ api_bad = a.api_bad
         /\ api_pages = a.api_pages
         /\ wh_drop_fails = a.delete_fails
    /\ exit_code = NoResult
    /\ cli_out = << >>
    /\ resolved = NoResolved
    /\ ops = << >>
    /\ dr = NoRange
    /\ gen = GenStart
    /\ yielded = << >>
    /\ LoadInit
    /\ ParseIdle
    /\ PeerIdle
    /\ LimIdle
    /\ preset_enum = Null
    /\ tool_rows = NoResult
    /\ tool_out = NoOut
    /\ SyncLocals

NextRequest ==
    \/ CliCommand
    \/ CliReturn
    \/ ToolCommand
    \/ ToolTenant
    \/ ToolCall
    \/ ToolSynced
    \/ ToolReturn
    \/ ToolFailed
    \/ SyncResolve
    \/ SyncEnsure
    \/ NextSync
SpecRequest == InitRequest /\ [][NextRequest]_vars

\* Two load_json_rows calls of independent sync invocations (two accounts) at
\* the same time: each has been handed its batch; the destination holds rows
\* of earlier loads.
OtherAccount(r) == [r EXCEPT !.account_global_id = "meta:account:act_2"]
OwnRows == {r \in LoadRows : r.campaign_global_id # "meta:campaign:1"}
PeerRows == {OtherAccount(Row(Day0, "ad", Null, Null, Null, m)) : m \in {1, 2}}
EarlierRows == {Row(Day0, "ad", Null, Null, Null, 3),
                OtherAccount(Row(Day0, "ad", Null, Null, Null, 3))}
InitConcurrent ==
    /\ lpc = "called"
    /\ batch \in SeqsUpTo(OwnRows, MaxBatch) \ {<< >>}
    /\ peer_lpc = "called"
    /\ peer_batch \in SeqsUpTo(PeerRows, MaxBatch) \ {<< >>}
    /\ dest \in {SetToBag(E) : E \in SUBSET EarlierRows}
    /\ dest0 = dest
    /\ stg_table = NoName
    /\ lfail = "none"
    /\ dfail = FALSE
    /\ tables = << >>
    /\ uuid_next = 1
    /\ stg_prev = NoName
    /\ merged = FALSE
    /\ reload = FALSE
    /\ nloads = 1
    /\ nrows = Len(batch)
    /\ steps = << >>
    /\ peer_stg = NoName
    /\ peer_lfail = "none"
    /\ peer_dfail = FALSE
    /\ peer_merged = FALSE
    /\ ParseIdle
    /\ ToolIdle
    /\ LimIdle
    /\ ChunkIdle
    /\ SyncIdle
NextConcurrent ==
    \/ LoadEnsure
    \/ LoadCreate
    \/ LoadStage
    \/ LoadMerge
    \/ LoadFinally
    \/ PeerEnsure
    \/ PeerCreate
    \/ PeerStage
    \/ PeerMerge
    \/ PeerFinally
SpecConcurrent == InitConcurrent /\ [][NextConcurrent]_vars

\* A RateLimiter(requests_per_minute) and the check_limit calls made on it.
InitLimiter ==
    /\ requests_per_minute \in 0..MaxRpm
    /\ buckets = << >>
    /\ clock = 0
    /\ lim_log = << >>
    /\ ParseIdle
    /\ PeerIdle
    /\ ToolIdle
    /\ ChunkIdle
    /\ LoadInit
    /\ SyncIdle
NextLimiter ==
    \/ \E t \in Tenants : check_limit(t)
    \/ LimiterTick
SpecLimiter == InitLimiter /\ [][NextLimiter]_vars

\* fetch_insights iterating over one page of upstream rows.
InitParse ==
    /\ up_rows \in SeqsUpTo(UpRows, MaxPageRows) \ {<< >>}
    /\ ppos = 1
    /\ precs = << >>
    /\ perr = "none"
    /\ PeerIdle
    /\ ToolIdle
    /\ LimIdle
    /\ ChunkIdle
    /\ LoadInit
    /\ SyncIdle
NextParse == ParseRow
SpecParse == InitParse /\ [][NextParse]_vars
Spec == SpecSync

\* ===========================================================================
\* Properties
\* ===========================================================================
CeilDiv(a, b) == (a + b - 1) \div b
DaysIn(c) == (c.until - c.since) + 1
IsPrefix(a, b) == Len(a) <= Len(b) /\ \A i \in 1..Len(a) : a[i] = b[i]
Last(q) == q[Len(q)]

RECURSIVE SumRows(_)
SumRows(q) == IF q = << >> THEN 0 ELSE Head(q).rows + SumRows(Tail(q))
LevelsOf(q) == [i \in 1..Len(q) |-> q[i].level]

\* The natural key of a row, a null id read as the empty string.
NaturalKey(r) ==
    <<r.date, r.level, IfNull(r.account_global_id), IfNull(r.campaign_global_id),
      IfNull(r.adset_global_id), IfNull(r.ad_global_id)>>
KeysOf(T) == {NaturalKey(r) : r \in BagToSet(T)}
DistinctKeys(b) ==
    \A i, j \in 1..Len(b) : NaturalKey(b[i]) = NaturalKey(b[j]) => i = j
MetricsOf(r) ==
    <<r.impressions, r.clicks, r.spend, r.conversions, r.ctr, r.frequency, r.raw_metrics>>

\* C1: each chunk's fetch-and-load unit is invoked at most retries+1 times, counted
\* per chunk: a chunk that went through after k failed invocations was invoked
\* exactly k+1 times with k <= retries, and the sync raises only after exactly
\* retries+1 invocations of the chunk, all of them failed.
C1_AttemptsPerChunk ==
    /\ calls <= retries + 1
    /\ (spc \in {"for_chunk", "fl_return", "for_level", "while_level", "returned"}
          /\ calls > 0)
         => (calls = fails + 1 /\ fails <= retries)
    /\ spc = "raised" => (calls = retries + 1 /\ fails = retries + 1)
\* With retries = 2 a chunk failed twice and was loaded by its third invocation.
C1_Witness ==
    /\ spc = "for_chunk" /\ retries = 2 /\ fails = 2 /\ calls = 3
    /\ lpc = "returned" /\ loaded_count > 0 /\ rows = << >>

\* C2: a chunk that has used up its retry budget makes sync_meta_insights raise the
\* chunk's last error and return no row count, and nothing is fetched or loaded
\* afterwards: the raised call takes no further step.
C2_AbortOnExhaustion ==
    /\ [](fails > retries => spc \in {"except", "raised"})
    /\ [](spc = "raised" => (raised = err /\ raised # "none" /\ result = NoResult))
    /\ [][spc # "raised"]_vars
\* The sync raised while a listed level was still to run.
C2_Witness ==
    /\ spc = "raised" /\ LevelsGiven /\ li < Len(levels[1])
    /\ retries = 1 /\ fails = 2 /\ raised = "merge"

\* C3: no two destination rows have the same natural key, after any sequence of
\* loads into an initially empty destination.
C3_NaturalKeyUnique ==
    \A r \in BagToSet(dest) :
        /\ dest[r] = 1
        /\ \A q \in BagToSet(dest) : NaturalKey(q) = NaturalKey(r) => q = r

\* C4: loading once more the batch just loaded (pairwise distinct natural keys)
\* leaves the destination's row count and natural keys as they were, and the rows
\* the batch matches hold the batch's metric values when the call has returned.
C4_ReloadIdempotent ==
    (reload /\ DistinctKeys(batch)) =>
        /\ BagCardinality(dest) = BagCardinality(dest0)
        /\ KeysOf(dest) = KeysOf(dest0)
        /\ lpc = "returned" =>
             \A t \in BagToSet(dest) : \A i \in 1..Len(batch) :
                 NaturalKey(t) = NaturalKey(batch[i]) => MetricsOf(t) = MetricsOf(batch[i])
\* A two-row batch with a null id loaded a second time, merge done.
C4_Witness ==
    /\ reload /\ lpc = "returned" /\ merged /\ DistinctKeys(batch) /\ Len(batch) = 2
    /\ \E i \in 1..2 : batch[i].campaign_global_id = Null
    /\ BagCardinality(dest) >= 2

\* C5: once load_json_rows has chosen a staging name and has returned or raised,
\* that staging table does not exist.
C5_StagingDropped ==
    (lpc \in {"returned", "raised"} /\ stg_table # NoName) =>
        stg_table \notin DOMAIN tables

\* C6: when the bulk load into staging fails, the call goes to cleanup and raises
\* without running the merge, and the destination holds the rows it held before.
C6_LoadFailureLeavesDest ==
    lfail = "load" =>
        /\ lpc \in {"finally", "raised"}
        /\ ~InSeq(steps, "merge")
        /\ ~merged
        /\ dest = dest0
\* The staging load failed on a destination that already held rows.
C6_Witness ==
    /\ lpc = "raised" /\ lfail = "load" /\ dest # EmptyBag
    /\ \E i \in 1..Len(batch) : batch[i] \notin BagToSet(dest)

\* C7: the attempt that follows a merge failure runs the whole unit again: it
\* requests the chunk's pages from the first one, and its load stages into a
\* staging table named anew and only then merges.
C7_RetryRerunsWholeUnit ==
    /\ [][(spc = "except" /\ spc' # "except") => spc' \in {"try", "raised"}]_vars
    /\ []((after_merge_fail /\ spc = "loading") =>
            /\ pages # << >>
            /\ \A i \in 1..Len(pages) : pages[i] = i - 1
            /\ batch = rows
            /\ stg_table # NoName => stg_table # stg_prev
            /\ InSeq(steps, "load") => IsPrefix(<<"create", "load">>, steps)
            /\ InSeq(steps, "merge") => IsPrefix(<<"create", "load", "merge">>, steps)
            /\ lpc = "returned" => steps = <<"create", "load", "merge", "drop">>)
\* The retry after a merge failure fetched two pages, staged, merged and returned.
C7_Witness ==
    /\ after_merge_fail /\ spc = "loading" /\ lpc = "returned" /\ merged
    /\ pages = <<0, 1>> /\ stg_prev # NoName

\* The levels the fallback loop may run from a requested level, in order.
Cascade(lv) ==
    IF lv = "ad" THEN <<"ad", "adset", "campaign">>
    ELSE IF lv = "adset" THEN <<"adset", "campaign">>
    ELSE <<lv>>

\* C8: without a levels list the levels run are the requested level and then the
\* coarser ones of ad, adset, campaign, in order; the next level starts only with
\* fallback enabled and after a level that loaded zero rows; the run stops at the
\* first level with rows, with fallback disabled, or at the end of the order; and
\* the row count returned is that of the last level run.
C8_FallbackCascade ==
    ~LevelsGiven =>
        /\ IsPrefix(tried_levels, Cascade(level))
        /\ IsPrefix(LevelsOf(ran), tried_levels)
        /\ Len(tried_levels) - Len(ran) \in {0, 1}
        /\ \A i \in 1..Len(ran) : i < Len(tried_levels) => (ran[i].rows = 0 /\ fallback_levels)
        /\ spc = "returned" =>
             /\ LevelsOf(ran) = tried_levels /\ ran # << >>
             /\ result = Last(ran).rows
             /\ (fallback_levels /\ Last(ran).rows = 0) => tried_levels = Cascade(level)
\* ad loaded nothing, adset loaded rows: two levels run, the count is adset's.
C8_Witness ==
    /\ spc = "returned" /\ levels = << >> /\ level = "ad" /\ Len(ran) = 2
    /\ ran[1] = [level |-> "ad", rows |-> 0]
    /\ ran[2].level = "adset" /\ ran[2].rows = 2 /\ result = 2

\* What C9 says of a call that was given the list ls.
ListedLevelsRun(ls) ==
    /\ tried_levels = << >>
    /\ IsPrefix(LevelsOf(ran), ls)
    /\ spc = "returned" => (LevelsOf(ran) = ls /\ result = SumRows(ran))

\* C9 as stated: with a levels list supplied, every listed level runs once, in list
\* order, no fallback level is added, and the sum of the rows is returned.
C9_ListedLevels == levels # << >> => ListedLevelsRun(levels[1])
\* C9 amended: the same, for a levels list that is not empty.
C9_NonEmptyListedLevels == LevelsGiven => ListedLevelsRun(levels[1])
\* Both levels of the list <<campaign, ad>> loaded rows; the sum is returned.
C9_Witness ==
    /\ spc = "returned" /\ levels = << <<"campaign", "ad">> >>
    /\ Len(ran) = 2 /\ ran[1].rows > 0 /\ ran[2].rows > 0
    /\ result = ran[1].rows + ran[2].rows

\* C10: for a span of more than 60 days and chunk_days C >= 1 the chunks start at
\* since, each next one starts the day after the previous one ends, each covers
\* between 1 and C days, and when the generator is exhausted there are
\* ceil(span / C) of them and the last ends at until.
C10_ChunksCoverRange ==
    (dr # NoRange /\ TotalDaysOf(dr) > SingleChunkDays /\ chunk_days >= 1) =>
        /\ \A i \in 1..Len(yielded) :
             /\ yielded[i].since = (IF i = 1 THEN dr.since ELSE yielded[i - 1].until + 1)
             /\ DaysIn(yielded[i]) >= 1 /\ DaysIn(yielded[i]) <= chunk_days
             /\ yielded[i].until <= dr.until
        /\ gen.pc = "done" =>
             /\ Len(yielded) = CeilDiv(TotalDays(dr), chunk_days)
             /\ Last(yielded).until = dr.until
\* 61 days in chunks of 30: three chunks, the last one a single day.
C10_Witness ==
    /\ gen.pc = "done" /\ dr # NoRange /\ TotalDaysOf(dr) = 61 /\ chunk_days = 30
    /\ Len(yielded) = 3 /\ DaysIn(yielded[3]) = 1

\* C11: for a range whose inclusive span is at most 60 days, whatever chunk_days
\* is (zero and negative values included), the generator yields the input range
\* itself as its first and only chunk and is then exhausted.
C11_ShortRangeOneChunk ==
    (dr # NoRange /\ (dr.until - dr.since) + 1 <= SingleChunkDays) =>
        /\ gen.pc \in {"start", "done"}
        /\ gen.pc = "start" => yielded = << >>
        /\ gen.pc = "done" => yielded = <<dr>>
\* A range of exactly 60 days with one-day chunks requested: still one chunk.
C11_Witness ==
    /\ dr # NoRange /\ (dr.until - dr.since) + 1 = SingleChunkDays /\ chunk_days = 1
    /\ gen.pc = "done" /\ yielded = <<dr>>

\* C12: for every range and every integer chunk_days the function takes,
\* iteration over the generator comes to an end (StopIteration or an exception):
\* the sequence of chunks is finite.
C12_ChunksTerminate == <>(gen.pc \in {"done", "raised"})

\* The preset the caller supplied: the --date-preset option of the command, or
\* the date_preset argument of a direct call.
SuppliedPreset == IF cpc = "none" THEN date_preset ELSE opt_date_preset
\* Only one of since/until, or a date string that does not parse.
BadDates ==
    \/ Truthy(since) /\ ~Truthy(until)
    \/ ~Truthy(since) /\ Truthy(until)
    \/ Truthy(since) /\ ~ValidDate(since)
    \/ Truthy(until) /\ ~ValidDate(until)
\* Exactly one of a range and a preset is there.
ExactlyOne(r, p) == (r # NoRange) # (p # Null)

\* C13: with the limiter on, any two consecutive outbound requests of one sync
\* start at least min_interval (1 / requests_per_second) apart.
C13_RequestSpacing ==
    min_interval > 0 => (req_gap = NoTime \/ req_gap >= min_interval)

\* C14: a ValueError raised inside the fetch-and-load unit is not retried: once
\* it is raised the unit is not entered again and the sync raises it.
C14_ValidationNotRetried ==
    err = "ValueError" =>
        /\ spc \in {"except", "raised"}
        /\ spc = "raised" => raised = "ValueError"

\* C15: since and until supplied together with a preset (lifetime included)
\* resolve to the range [since, until] and no preset.
C15_ExplicitDatesWin ==
    (resolved # NoResolved /\ SuppliedPreset # Null /\ Truthy(since) /\ Truthy(until)) =>
        /\ resolved.date_range = DateRange(IsoOrdinal[since], IsoOrdinal[until])
        /\ resolved.date_preset = Null
\* A direct call with the lifetime preset and explicit dates, run to its end.
C15_Witness ==
    /\ cpc = "none" /\ date_preset = "lifetime"
    /\ since = "0001-02-10" /\ until = "0001-02-12"
    /\ resolved = _ResolvedDates(DateRange(41, 43), Null)
    /\ fetch_call.made /\ fetch_call.date_preset = Null
    /\ spc = "returned"

\* C16: the command rejects a preset given together with since/until: it exits
\* non-zero saying the options cannot be used together, and starts no sync.
C16_ConflictRejected ==
    (cpc # "none" /\ opt_date_preset # Null /\ (Truthy(since) \/ Truthy(until))) =>
        \/ cpc = "start"
        \/ /\ cpc = "exit"
           /\ exit_code # 0
           /\ spc = "none"
           /\ \E i \in 1..Len(cli_out) : cli_out[i] = "cannot be used together"

\* C17: with only one of since/until, or a malformed date, the request fails
\* with a ValueError (exit code 1 from the command) before the adapter is built
\* or called and before any dataset, table or staging operation.
C17_BadDatesFailFirst ==
    BadDates =>
        /\ spc \in {"none", "resolve", "raised"}
        /\ spc = "raised" => raised = "ValueError"
        /\ cpc = "exit" => exit_code = 1
        /\ ops = << >> /\ ~fetch_call.made /\ prev_req = NoTime
        /\ nloads = 0 /\ steps = << >> /\ tables = << >> /\ dest = EmptyBag
        /\ result = NoResult
\* The command given --since only: the sync raises and the command exits with 1.
C17_Witness ==
    /\ cpc = "exit" /\ exit_code = 1
    /\ since = "0001-02-10" /\ until = Null
    /\ spc = "raised" /\ raised = "ValueError" /\ ops = << >>

\* C18: every resolved DateRange, and every chunk handed to a fetch, has
\* since <= until.
C18_RangesOrdered ==
    /\ (resolved # NoResolved /\ resolved.date_range # NoRange) =>
           resolved.date_range.since <= resolved.date_range.until
    /\ chunk # NoRange => chunk.since <= chunk.until

\* C19: the resolved dates hold exactly one of a range and a preset, the preset
\* only when it is lifetime, and every fetch_insights call is given exactly one
\* of date_range and date_preset.
C19_ExactlyOneOfRangeAndPreset ==
    /\ resolved # NoResolved =>
        /\ ExactlyOne(resolved.date_range, resolved.date_preset)
        /\ resolved.date_preset # Null => resolved.date_preset = "lifetime"
        /\ resolved.date_range = NoRange <=>
              (SuppliedPreset = "lifetime" /\ ~Truthy(since) /\ ~Truthy(until))
    /\ fetch_call.made => ExactlyOne(fetch_call.date_range, fetch_call.date_preset)
\* A lifetime sync that fetched with the preset and no range.
C19_Witness ==
    /\ resolved = _ResolvedDates(NoRange, "lifetime")
    /\ fetch_call.made /\ fetch_call.date_range = NoRange
    /\ fetch_call.date_preset = "lifetime"
    /\ spc = "returned"

\* C20: with no preset and no since/until the resolved dates are the one-day
\* range [today - 1, today - 1] and no preset.
C20_DefaultYesterday ==
    (resolved # NoResolved /\ SuppliedPreset = Null /\ ~Truthy(since) /\ ~Truthy(until)) =>
        resolved = _ResolvedDates(DateRange(today - 1, today - 1), Null)
\* The command run without date options: the sync fetched yesterday.
C20_Witness ==
    /\ cpc = "exit" /\ exit_code = 0 /\ opt_date_preset = Null
    /\ since = Null /\ until = Null /\ today = 45
    /\ resolved = _ResolvedDates(DateRange(44, 44), Null)
    /\ fetch_call.made /\ fetch_call.date_range = DateRange(44, 44)

\* The records of a sequence of responses, in order.
RECURSIVE DataOf(_)
DataOf(log) == IF log = << >> THEN << >> ELSE Head(log).data \o DataOf(Tail(log))

\* C21: a fetch that ran to its end requested page 0 and then each next page,
\* got 200 on every request, stopped at the first response without a next
\* link, and yielded the records of all its pages once, in page order; a
\* non-200 response makes the call raise.
C21_FetchFollowsPages ==
    /\ spc \in {"fetched", "loading"} =>
        /\ resp_log # << >>
        /\ pages = [i \in 1..Len(resp_log) |-> i - 1]
        /\ \A i \in 1..Len(resp_log) :
             /\ resp_log[i].status = 200
             /\ resp_log[i].next = (i < Len(resp_log))
        /\ fetched = DataOf(resp_log)
    /\ (resp_log # << >> /\ Last(resp_log).status # 200) =>
        /\ spc = "except"
        /\ err = "fetch"
\* Two pages with a record each were fetched, the first carrying a next link.
C21_Witness ==
    /\ spc = "fetched" /\ Len(resp_log) = 2 /\ resp_log[1].next
    /\ fetched = <<PageRecord(0), PageRecord(1)>>
    /\ pages = <<0, 1>>


\* ---------------------------------------------------------------------------
\* C22: no missing or unparseable value of a numeric field of an upstream row
\* makes fetch_insights raise: an integer field (impressions, clicks) becomes
\* 0, a decimal field (spend, ctr, frequency) becomes null, and the remaining
\* rows of the page are still yielded.
IntDefault(v) == IF v \in DOMAIN IntOf THEN IntOf[v] ELSE 0
DecimalDefault(v) == IF v \in DOMAIN FloatOf THEN FloatOf[v] ELSE Null
C22_NumericDefaults ==
    /\ perr = "none"
    /\ Len(precs) = ppos - 1
    /\ \A i \in 1..Len(precs) :
         /\ precs[i].raw = up_rows[i]
         /\ precs[i].impressions = IntDefault(up_rows[i].impressions)
         /\ precs[i].clicks = IntDefault(up_rows[i].clicks)
         /\ precs[i].spend = DecimalDefault(up_rows[i].spend)
         /\ precs[i].ctr = DecimalDefault(up_rows[i].ctr)
         /\ precs[i].frequency = DecimalDefault(up_rows[i].frequency)


\* ---------------------------------------------------------------------------
\* C23: two load operations of independent sync invocations whose batches have
\* disjoint natural keys, run concurrently under any interleaving of their
\* create-staging, load, merge and drop steps, leave the destination as running
\* them one after the other does, and neither ever loads into, merges from or
\* drops the other's staging table.
MergedIf(done, T, b) == IF done THEN MergeResult(T, SeqToBag(b)) ELSE T
Finished(pc) == pc \in {"returned", "raised"}
BagLeq(A, B) == \A x \in BagToSet(A) : x \in BagToSet(B) /\ A[x] <= B[x]
C23_ConcurrentLoadsSerialise ==
    \* each has a staging table of its own
    /\ (stg_table # NoName /\ peer_stg # NoName) => stg_table # peer_stg
    \* which holds its owner's rows only and is there until its owner drops it
    /\ lpc \in {"load", "merge"} =>
         /\ stg_table \in DOMAIN tables
         /\ tables[stg_table] = (IF lpc = "merge" THEN SeqToBag(batch) ELSE EmptyBag)
    /\ peer_lpc \in {"load", "merge"} =>
         /\ peer_stg \in DOMAIN tables
         /\ tables[peer_stg] =
              (IF peer_lpc = "merge" THEN SeqToBag(peer_batch) ELSE EmptyBag)
    \* and the destination is what the two loads give in either order
    /\ (Finished(lpc) /\ Finished(peer_lpc)) =>
         /\ dest = MergedIf(peer_merged, MergedIf(merged, dest0, batch), peer_batch)
         /\ dest = MergedIf(merged, MergedIf(peer_merged, dest0, peer_batch), batch)
         /\ merged => ~MergeAmbiguous(dest0, SeqToBag(batch))
         /\ peer_merged => ~MergeAmbiguous(dest0, SeqToBag(peer_batch))
         /\ \A n \in DOMAIN tables :
              (n = stg_table /\ dfail) \/ (n = peer_stg /\ peer_dfail)
C23_Witness ==
    /\ Finished(lpc) /\ Finished(peer_lpc)
    /\ merged /\ peer_merged
    /\ stg_table = _staging_table(2) /\ peer_stg = _staging_table(1)
    /\ dest0 # EmptyBag
    /\ dest # dest0
    /\ steps = <<"create", "load", "merge", "drop">>


\* ---------------------------------------------------------------------------
\* C24: the sleep before the k-th retry of a chunk (k = 1..retries) lasts
\* retry_backoff * 2^(k-1), and no backoff sleep follows the final failed
\* attempt.
C24_BackoffDoubles ==
    /\ \A k \in 1..Len(slept) : slept[k] = retry_backoff * (2 ^ (k - 1))
    /\ Len(slept) <= retries
    /\ spc = "except" => Len(slept) = fails - 1
    /\ (spc = "raised" /\ fails > 0) => Len(slept) = retries /\ fails = retries + 1
    /\ spc \in {"try", "fetching", "fetched", "loading"} => Len(slept) = fails
C24_Witness ==
    /\ spc = "raised"
    /\ retry_backoff = 3
    /\ slept = <<3, 6>>
    /\ fails = 3


\* ---------------------------------------------------------------------------
\* C27: for every chunk, the batch handed to load_json_rows consists of exactly
\* the records yielded by that attempt's fetch, each once: records accumulated
\* during earlier failed attempts of the same chunk (a fetch that failed part
\* way through its pages, or a load that failed) are not in it.
C27_BatchIsThisFetch ==
    spc = "loading" => batch = ToRows(fetched, run_level)


\* ---------------------------------------------------------------------------
\* C28: the row count returned by sync_meta_insights equals the total number of
\* records yielded by the successful fetch of each chunk of each level run;
\* failed attempts that were later retried add nothing to it.
C28_CountIsFetched ==
    result # NoResult => result = expect


\* ---------------------------------------------------------------------------
\* C29: on success, the row count that meta_sync_insights_tool reports to its
\* caller equals the row count returned by the sync_meta_insights call it made.
C29_ToolReportsCount ==
    (tpc = "done" /\ tool_out.success) => tool_out.rows = result


\* ---------------------------------------------------------------------------
\* C25: for a tenant's fresh bucket in a RateLimiter with requests_per_minute
\* = N, when no time passes between calls, exactly the first N check_limit
\* calls are allowed and every later call is denied; a denied call consumes no
\* token.
CallsOf(t) == SelectSeq(lim_log, LAMBDA e : e.tenant = t)
NoTimePassed(L) == \A i \in 1..Len(L) : L[i].at = L[1].at
C25_FirstNAllowed ==
    \A t \in Tenants :
        LET L == CallsOf(t)
        IN NoTimePassed(L) =>
             \A i \in 1..Len(L) :
                 /\ L[i].outcome = IF i <= requests_per_minute THEN "allowed" ELSE "denied"
                 /\ L[i].outcome = "denied" => L[i].post[t].tokens = L[i].refilled
\* what the limiter does keep: the claim for every N of at least 1
C25_HoldsFromOne ==
    requests_per_minute >= 1 => C25_FirstNAllowed

\* ---------------------------------------------------------------------------
\* C26: check_limit for one tenant never changes the bucket of any other
\* tenant: after any sequence of calls for tenant A, including ones that
\* exhaust A's tokens, the first call for a tenant B that has made no calls is
\* allowed.
FrameKept(e) ==
    /\ DOMAIN e.post = DOMAIN e.pre \cup {e.tenant}
    /\ \A b \in DOMAIN e.pre \ {e.tenant} : e.post[b] = e.pre[b]
FirstCallAllowed(t) == CallsOf(t) # << >> => CallsOf(t)[1].outcome = "allowed"
C26_OtherBucketsUntouched ==
    /\ \A i \in 1..Len(lim_log) : FrameKept(lim_log[i])
    /\ \A t \in Tenants : FirstCallAllowed(t)
\* ... which holds of a limiter that allows any request at all
\* (requests_per_minute >= 1).
C26_OtherBucketsUntouchedFromOne ==
    /\ \A i \in 1..Len(lim_log) : FrameKept(lim_log[i])
    /\ requests_per_minute >= 1 => \A t \in Tenants : FirstCallAllowed(t)
C26_Witness ==
    /\ requests_per_minute = 1
    /\ Len(lim_log) = 4
    /\ \A i \in 1..3 : lim_log[i].tenant = "tenant_a"
    /\ lim_log[3].outcome = "denied"
    /\ lim_log[4].tenant = "tenant_b" /\ lim_log[4].outcome = "allowed"
    /\ lim_log[4].pre = lim_log[3].post


\* ---------------------------------------------------------------------------
\* C30: load_json_rows never deletes a destination row and never changes a
\* destination row whose natural key does not occur in the batch; in a row
\* that the batch matches it changes only the metric columns, never the key
\* columns.
KeyColumns(r) ==
    <<r.date, r.level, r.account_global_id, r.campaign_global_id, r.adset_global_id,
      r.ad_global_id>>
RowsWithKeyColumns(T, k) == SumOver({r \in BagToSet(T) : KeyColumns(r) = k}, T)
BatchKeys == {NaturalKey(batch[i]) : i \in 1..Len(batch)}
C30_MergeFrame ==
    lpc \in {"called", "create", "load", "merge", "finally", "returned", "raised"} =>
        \* every row is still there under its key columns, as they were written
        /\ \A r \in BagToSet(dest0) :
             RowsWithKeyColumns(dest, KeyColumns(r)) >= RowsWithKeyColumns(dest0, KeyColumns(r))
        \* and whole when the batch does not name it
        /\ \A r \in BagToSet(dest0) :
             NaturalKey(r) \notin BatchKeys => r \in BagToSet(dest) /\ dest[r] = dest0[r]
C30_Witness ==
    /\ lpc = "returned" /\ merged
    /\ batch = <<Row(Day0, "ad", Null, Null, Null, 2)>>
    /\ dest0 = SetToBag({Row(Day0, "ad", "", Null, Null, 1),
                         Row(Day0, "ad", "meta:campaign:1", Null, Null, 1)})
    /\ dest = SetToBag({Row(Day0, "ad", "", Null, Null, 2),
                        Row(Day0, "ad", "meta:campaign:1", Null, Null, 1)})

====
